---- MODULE Spec2Model ----
(***************************************************************************)
(* Implied-volatility aggregation pipeline.                                *)
(*                                                                         *)
(*   2_zips_to_zarrs_combined.py   snapshot archives -> SurfaceStore       *)
(*   3_produce_iv_dataset_full.py  SurfaceStore -> cube batch -> CubeStore *)
(*                                                                         *)
(* A persisted zarr store is modelled as [exists, rows]: the directory     *)
(* being present and the rows that can currently be read from it.          *)
(* Dataset.to_zarr(path, mode='w') opens the target group for overwrite,   *)
(* which clears what is stored at the path, and then writes the arrays:    *)
(* it is modelled as one step that empties the store followed by one step  *)
(* that writes the arrays.                                                 *)
(***************************************************************************)
EXTENDS Integers, Sequences, FiniteSets, TLC

\* ---------------------------------------------------------------- bounds
MaxDate == 2        \* calendar dates are 1..MaxDate
MaxLines == 2       \* data lines of one snapshot archive
MaxZips == 2        \* archives present in the input directory
MaxRuns == 3        \* invocations of the merger script
MaxIvRuns == 1      \* invocations of the aggregation script after the first

\* ------------------------------------------------------------ value sets
NaN == -1           \* pandas' missing value in a numeric column
NoDate == 0         \* extract_date_from_filename found no YYYY-MM-DD
InvalidDate == -2   \* the name has dddd-dd-dd digits that are no calendar date

Dates == 1..MaxDate
Tickers == {"AAA"}

\* One parsed data line.  teo is tradingDate, ticker is ticker_tk, and vals
\* stands for the tuple of the numeric columns (rate, years, atmVol, atmCen,
\* atmVega, slope, cCnt, pCnt, vwidth).
SurfaceRecords == [teo : Dates, ticker : Tickers, vals : {1}]

RECURSIVE SeqsUpTo(_, _)
SeqsUpTo(S, n) ==
    IF n = 0 THEN {<< >>}
    ELSE LET shorter == SeqsUpTo(S, n - 1)
         IN  shorter \cup {Append(s, x) : s \in {t \in shorter : Len(t) = n - 1}, x \in S}

\* An archive: the date embedded in its file name (NoDate when the name has
\* none) and the data lines that match the header's column count (none when
\* the archive has no text member, fewer than two lines or no valid line).
\* Within one snapshot a record occurs once.
IsInjective(s) == \A i, j \in 1..Len(s) : s[i] = s[j] => i = j

DataFrames == {s \in SeqsUpTo(SurfaceRecords, MaxLines) : IsInjective(s)}

ZipFiles == [date : {NoDate, InvalidDate} \cup Dates, lines : DataFrames]

AbsentStore == [exists |-> FALSE, rows |-> << >>]

TickerNames == <<"AAA", "BBB", "CCC", "DDD">>

\* ------------------------------------------------------ dataframe helpers
RECURSIVE Concat(_)
Concat(dfs) == IF dfs = << >> THEN << >> ELSE Head(dfs) \o Concat(Tail(dfs))

Range(s) == {s[i] : i \in 1..Len(s)}

\* The rows of df at the positions in kept, in their order.
RECURSIVE KeepFrom(_, _, _)
KeepFrom(df, kept, i) ==
    IF i > Len(df) THEN << >>
    ELSE (IF i \in kept THEN <<df[i]>> ELSE << >>) \o KeepFrom(df, kept, i + 1)

KeepAt(df, kept) == KeepFrom(df, kept, 1)

\* DataFrame.drop_duplicates(): keeps the first of the rows that are equal
\* in every column.
drop_duplicates(df) ==
    KeepAt(df, {i \in 1..Len(df) : \A j \in 1..(i - 1) : df[j] # df[i]})

\* The records of a store, the synthetic row index left out.
RecordSet(rows) == {rows[i].rec : i \in 1..Len(rows)}

\* ------------------------------------------- 2_zips_to_zarrs_combined.py
\* The regular expression matches any dddd-dd-dd; pd.to_datetime of digits
\* that are no calendar date (month 13, day 45) raises ValueError, for which
\* InvalidDate stands.
extract_date_from_filename(f) == f.date

\* get_new_zip_files, lines 206-207: the loop calls
\* extract_date_from_filename on every archive of the directory and has no
\* handler, so one such name makes get_new_zip_files, and main(), raise.
get_new_zip_files_raises(dir) ==
    \E f \in dir : extract_date_from_filename(f) = InvalidDate

\* None is modelled as the empty frame: a frame returned by process_zip_file
\* always has at least one row.
process_zip_file(f) == f.lines

\* The rows written when the store is created: pd.concat(ignore_index=True)
\* numbers the rows 0..n-1 and to_xarray() stores that as the 'index'
\* coordinate.  No duplicate removal takes place.
save_flat_rows(dataframes) ==
    LET combined_df == Concat(dataframes)
    IN  [i \in 1..Len(combined_df) |-> [index |-> i - 1, rec |-> combined_df[i]]]

\* get_existing_zarr_dates.  When the store opens and has a 'teo' variable,
\* pd.to_datetime(ds['teo'].values) is a DatetimeIndex, whose .date is a
\* property holding an array: calling it, dates.date(), raises TypeError,
\* which the function's own "except Exception" turns into the empty set.  A
\* store that cannot be opened ends in the same handler.  The store is never
\* empty when it exists, so every path returns the empty set.
get_existing_zarr_dates(store, openOk) ==
    IF ~store.exists THEN {}
    ELSE IF ~openOk THEN {}
    ELSE {}

RECURSIVE SortFiles(_)
FileCode(f) ==
    LET RECURSIVE Code(_)
        Code(s) == IF s = << >> THEN 0 ELSE s[1].teo + (MaxDate + 1) * Code(Tail(s))
    IN  f.date * 1000 + Code(f.lines)
SortFiles(S) ==
    IF S = {} THEN << >>
    ELSE LET m == CHOOSE f \in S : \A g \in S : FileCode(f) <= FileCode(g)
         IN  <<m>> \o SortFiles(S \ {m})

\* get_new_zip_files: the archives with a date in their name that is not in
\* existing_zarr_dates, sorted by path.
get_new_zip_files(dir, existing_zarr_dates) ==
    SortFiles({f \in dir : /\ extract_date_from_filename(f) # NoDate
                           /\ extract_date_from_filename(f) \notin existing_zarr_dates})

\* append_to_existing_zarr_fixed with the existing rows left out of the
\* concatenation.
append_combined_newonly(existing_df, new_dataframes) ==
    LET new_combined_df == Concat(new_dataframes)
    IN  drop_duplicates([i \in 1..Len(new_combined_df) |->
                            [index |-> NaN, rec |-> new_combined_df[i]]])

\* append_to_existing_zarr_fixed, up to the write.  existing_df is
\* to_dataframe().reset_index(), so it carries the stored 'index' as a
\* column; the new rows have no such column and pd.concat fills it with NaN.
\* drop_duplicates() compares every column, 'index' included.  to_xarray()
\* then stores the 'index' column as the coordinate again.
append_combined(existing_df, new_dataframes) ==
    LET new_combined_df == Concat(new_dataframes)
        new_rows == [i \in 1..Len(new_combined_df) |->
                        [index |-> NaN, rec |-> new_combined_df[i]]]
    IN  drop_duplicates(existing_df \o new_rows)

\* Lines 286-292 with the existence test lost: the store is always created
\* anew from the batch.
merge_surface_overwrite(store, dataframes) ==
    IF dataframes = << >> THEN store
    ELSE [exists |-> TRUE, rows |-> save_flat_rows(dataframes)]

\* main(), lines 286-292: what the store holds once the chosen function has
\* returned.  Both functions return at once when given no frame.
merge_surface(store, dataframes) ==
    IF dataframes = << >> THEN store
    ELSE IF store.exists
    THEN [exists |-> TRUE, rows |-> append_combined(store.rows, dataframes)]
    ELSE [exists |-> TRUE, rows |-> save_flat_rows(dataframes)]

\* ------------------------------------------- 3_produce_iv_dataset_full.py
None == 0           \* get_latest_date_in_zarr could not tell the date

LargeCapMin == 10   \* market cap, in units of 1e9
MidCapMin == 2

\* A missing market cap (NaN) fails both comparisons and falls through to the
\* else branch, as NaN = -1 does here.
classify_size(market_cap) ==
    IF market_cap >= LargeCapMin THEN "Large Cap"
    ELSE IF market_cap >= MidCapMin THEN "Mid Cap"
    ELSE "Small Cap"

StyleNaN == "nan"   \* no style row joined for the (ticker, teo)
Total == "Total"

\* The rows of df at line 425 (after the joins), columns of line 428 plus
\* the ticker that tells two constituents apart.
EnrichedUniverse ==
    {[teo |-> t, ticker |-> "AAA", gics_sector |-> "Energy",
      size_category |-> classify_size(20), style |-> st,
      expiry_label |-> "30", value_type |-> "atmVol",
      value |-> v, market_cap |-> 20] :
        t \in Dates, st \in {"Growth"}, v \in {1, 2}}

\* One row per (teo, ticker, expiry_label, value_type).
EnrichedSets ==
    {E \in SUBSET EnrichedUniverse :
        /\ E # {}
        /\ \A r1, r2 \in E : r1.teo = r2.teo /\ r1.ticker = r2.ticker => r1 = r2}

\* sum() of the market_cap column over a group; sum() skips NaN and gives 0
\* for a group without any value.
RECURSIVE SumCap(_)
SumCap(S) ==
    IF S = {} THEN 0
    ELSE LET x == CHOOSE y \in S : TRUE
         IN  (IF x.market_cap = NaN THEN 0 ELSE x.market_cap) + SumCap(S \ {x})

\* sum() of weighted_value_num = value * market_cap (line 432) over a group;
\* the product is NaN where the market cap is, and sum() skips it.
RECURSIVE SumNum(_)
SumNum(S) ==
    IF S = {} THEN 0
    ELSE LET x == CHOOSE y \in S : TRUE
         IN  (IF x.market_cap = NaN THEN 0 ELSE x.value * x.market_cap) + SumNum(S \ {x})

RECURSIVE Gcd(_, _)
Gcd(a, b) == IF b = 0 THEN a ELSE Gcd(b, a % b)

\* num / den as a fraction in lowest terms; <<0, 0>> is NaN (0.0 / 0.0).
Ratio(num, den) ==
    IF den = 0 THEN <<0, 0>>
    ELSE <<num \div Gcd(num, den), den \div Gcd(num, den)>>

RECURSIVE SetToSeq(_)
SetToSeq(S) ==
    IF S = {} THEN << >>
    ELSE LET x == CHOOSE y \in S : TRUE IN <<x>> \o SetToSeq(S \ {x})

\* cube_group with the plain mean of value in place of the weighted one.
cube_group_unweighted(enriched, keep) ==
    LET Dim(r, d) == IF d \in keep THEN r[d] ELSE Total
        Key(r) == [teo |-> r.teo,
                   gics_sector |-> Dim(r, "gics_sector"),
                   size_category |-> Dim(r, "size_category"),
                   style |-> Dim(r, "style"),
                   expiry_label |-> r.expiry_label,
                   value_type |-> r.value_type]
        grouped == {r \in enriched : \A d \in keep : r[d] # StyleNaN}
        Row(k) == LET members == {r \in grouped : Key(r) = k}
                      ones == {[market_cap |-> 1, value |-> r.value, ticker |-> r.ticker] :
                                   r \in members}
                  IN  [teo |-> k.teo, gics_sector |-> k.gics_sector,
                       size_category |-> k.size_category, style |-> k.style,
                       expiry_label |-> k.expiry_label, value_type |-> k.value_type,
                       weighted_value |-> Ratio(SumNum(ones), SumCap(ones))]
    IN  SetToSeq({Row(Key(r)) : r \in grouped})

\* One groupby(...).sum() of lines 436-538: keep is the set of dimensions
\* grouped on, the others are set to 'Total'.  groupby leaves out the rows
\* whose key has a missing value.
cube_group(enriched, keep) ==
    LET Dim(r, d) == IF d \in keep THEN r[d] ELSE Total
        Key(r) == [teo |-> r.teo,
                   gics_sector |-> Dim(r, "gics_sector"),
                   size_category |-> Dim(r, "size_category"),
                   style |-> Dim(r, "style"),
                   expiry_label |-> r.expiry_label,
                   value_type |-> r.value_type]
        grouped == {r \in enriched : \A d \in keep : r[d] # StyleNaN}
        Row(k) == LET members == {r \in grouped : Key(r) = k}
                  IN  [teo |-> k.teo, gics_sector |-> k.gics_sector,
                       size_category |-> k.size_category, style |-> k.style,
                       expiry_label |-> k.expiry_label, value_type |-> k.value_type,
                       weighted_value |-> Ratio(SumNum(members), SumCap(members))]
    IN  SetToSeq({Row(Key(r)) : r \in grouped})

\* agg_all, lines 434-546: the full-detail group followed by the seven
\* totals in the order they are appended to agg_totals.
cube_batch(enriched) ==
    cube_group(enriched, {"gics_sector", "size_category", "style"})
    \o cube_group(enriched, {})
    \o cube_group(enriched, {"size_category", "style"})
    \o cube_group(enriched, {"gics_sector", "style"})
    \o cube_group(enriched, {"gics_sector", "size_category"})
    \o cube_group(enriched, {"style"})
    \o cube_group(enriched, {"size_category"})
    \o cube_group(enriched, {"gics_sector"})

\* agg_all for every set of enriched rows a run can be given.
CubeBatches == [E \in EnrichedSets |-> cube_batch(E)]

\* ------------------------------ lines 94-118: load_and_filter_data
MaxStoreRows == 2       \* rows of the opened surface store

\* atmVol is held as a number of halves and vwidth as a number of tenths,
\* years as a number of 1/365 year.
AtmVolDen == 2

VwidthDen == 10

\* Rows of the surface store.  On date 2, rows around every threshold of
\* lines 110-116: years 3/365 < 0.01 < 4/365 and 730/365 = 2 < 731/365,
\* atmVol 1.0 and 1.5, cCnt + pCnt 19 and 20, vwidth 0.2, 0.3 and missing.
\* On date 1, a row inside the thresholds and one of years above 2.
StoreRows ==
    [teo : {2}, ticker : {"AAA"}, years : {3, 4, 730, 731}, atmVol : {2, 3},
     cCnt : {9, 10}, pCnt : {10}, vwidth : {2, 3, NaN}]
    \cup [teo : {1}, ticker : {"AAA"}, years : {4, 731}, atmVol : {2},
          cCnt : {10}, pCnt : {10}, vwidth : {2}]

\* Line 103: dropna() removes every row with a missing value.
dropna(df) == {r \in df : r.vwidth # NaN}

\* Lines 106-108: df_all[df_all['teo'] >= start_date] when a start date is
\* given.
filter_start_date(df, start) ==
    IF start = None THEN df ELSE {r \in df : r.teo >= start}

\* Lines 110-116 without the vwidth condition.
liquidity_filter_novwidth(df) ==
    {r \in df :
        /\ r.years * 100 > 365
        /\ r.years < 2 * 365
        /\ r.atmVol * 2 < 3 * AtmVolDen
        /\ r.cCnt + r.pCnt >= 20}

\* Lines 110-116: years > 0.01, years < 2, atmVol < 1.5,
\* cCnt + pCnt >= 20, vwidth <= 0.2.
liquidity_filter(df) ==
    {r \in df :
        /\ r.years * 100 > 365
        /\ r.years < 2 * 365
        /\ r.atmVol * 2 < 3 * AtmVolDen
        /\ r.cCnt + r.pCnt >= 20
        /\ r.vwidth * 10 <= 2 * VwidthDen}

load_and_filter_data(ds, start) ==
    liquidity_filter(filter_start_date(dropna(ds), start))

\* ------------------------------------------ lines 374-425: the styles
MaxStyleDays == 3       \* days of the style dataset and of df

StyleDays == 1..MaxStyleDays

\* Two of the six style columns of line 374, in the order of value_vars.
StyleColumns == <<"Growth", "Value">>

StyleTickers == {TickerNames[1], TickerNames[2]}

\* The scores of one (ticker, teo): none, Growth above Value, a tie, and
\* Value alone.
StyleCells ==
    {[Growth |-> NaN, Value |-> NaN], [Growth |-> 2, Value |-> 1],
     [Growth |-> 1, Value |-> 1], [Growth |-> NaN, Value |-> 1]}

\* The style datasets: the first ticker has any scores, the second has no
\* Growth score.
StyleFeeds ==
    {f \in [StyleTickers \X StyleDays -> StyleCells] :
        \A d \in StyleDays : f[<<TickerNames[2], d>>].Growth = NaN}

\* Lines 377-382: the melted rows with a score.
style_melted(scores) ==
    {[ticker |-> x[1], teo |-> x[2], style |-> StyleColumns[k],
      style_score |-> scores[x][StyleColumns[k]]] :
        x \in DOMAIN scores, k \in 1..Len(StyleColumns)}

\* Lines 385-393: the rows with a score, sorted by ticker, teo and
\* descending score, one row kept per (ticker, teo).  The kept row has a
\* largest score; which of several rows of the same largest score comes
\* first is left to the sort, so every such choice is a possible frame.
style_rankings(scores) ==
    LET scored == {r \in style_melted(scores) : r.style_score # NaN}
        keys == {<<r.ticker, r.teo>> : r \in scored}
        best(x) == {r.style : r \in {q \in scored :
                       /\ q.ticker = x[1] /\ q.teo = x[2]
                       /\ \A p \in scored : (p.ticker = x[1] /\ p.teo = x[2])
                                               => p.style_score <= q.style_score}}
    IN  {{[ticker |-> x[1], teo |-> x[2], style |-> f[x]] : x \in keys} :
            f \in {g \in [keys -> {StyleColumns[k] : k \in 1..Len(StyleColumns)}] :
                      \A x \in keys : g[x] \in best(x)}}

TickerIndex(t) == CHOOSE i \in 1..Len(TickerNames) : TickerNames[i] = t

\* ffill() over the whole reindexed frame, rows ordered by ticker and day,
\* in place of groupby(level=0).ffill().
ffill_ungrouped(ranked, t, d) ==
    LET obs == {r \in ranked : \/ TickerIndex(r.ticker) < TickerIndex(t)
                                \/ (r.ticker = t /\ r.teo <= d)}
        after(q, r) == \/ TickerIndex(q.ticker) > TickerIndex(r.ticker)
                       \/ (q.ticker = r.ticker /\ q.teo >= r.teo)
    IN  IF obs = {} THEN StyleNaN
        ELSE (CHOOSE r \in obs : \A q \in obs : after(r, q)).style

\* Lines 409-412, groupby(level=0).ffill(): the style of ticker t on day d
\* is the one of t's latest ranked row on or before d, missing if there is
\* none.
groupby_ffill(ranked, t, d) ==
    LET obs == {r \in ranked : r.ticker = t /\ r.teo <= d}
    IN  IF obs = {} THEN StyleNaN
        ELSE (CHOOSE r \in obs : \A q \in obs : q.teo <= r.teo).style

\* Lines 399-414: all days from the first to the last day of style_ranked,
\* for every ticker of style_ranked, forward filled per ticker.
reindex_ffill(ranked) ==
    LET days == {d \in StyleDays : /\ \E r \in ranked : r.teo <= d
                                    /\ \E q \in ranked : q.teo >= d}
        tickers == {r.ticker : r \in ranked}
    IN  {[ticker |-> t, teo |-> d, style |-> groupby_ffill(ranked, t, d)] :
            t \in tickers, d \in days}

\* Line 425: df.merge(style_daily, on=['ticker', 'teo'], how='left');
\* rows of df without a row in style_daily get a missing style.
merge_style(df, daily) ==
    {[ticker |-> x.ticker, teo |-> x.teo,
      style |-> IF \E r \in daily : r.ticker = x.ticker /\ r.teo = x.teo
                THEN (CHOOSE r \in daily : r.ticker = x.ticker /\ r.teo = x.teo).style
                ELSE StyleNaN] : x \in df}

\* ------------------------------------- lines 232-250: the expiry buckets
MaxCandidates == 3      \* rows of df_all

TARGET_DAYS == <<30, 60, 90, 120, 180, 270, 360, 540, 720>>

\* years is held as a number of 1/365 year, so that years * 365.0 is whole.
YearsDen == 365

Abs(x) == IF x < 0 THEN -x ELSE x

\* np.argmin with the last of the smallest entries in place of the first.
argmin_last(diffs) ==
    CHOOSE i \in 1..Len(diffs) :
        /\ \A j \in 1..Len(diffs) : diffs[i] <= diffs[j]
        /\ \A j \in (i + 1)..Len(diffs) : diffs[j] # diffs[i]

\* np.argmin: the index of the first of the smallest entries.
argmin(diffs) ==
    CHOOSE i \in 1..Len(diffs) :
        /\ \A j \in 1..Len(diffs) : diffs[i] <= diffs[j]
        /\ \A j \in 1..(i - 1) : diffs[j] # diffs[i]

\* days = years * 365.0
Days(years) == (years * 365) \div YearsDen

\* assign_closest_bucket: <<target_days, days_diff>>.
assign_closest_bucket(years) ==
    LET days == Days(years)
        diffs == [k \in 1..Len(TARGET_DAYS) |-> Abs(days - TARGET_DAYS[k])]
        idx == argmin(diffs)
    IN  <<TARGET_DAYS[idx], diffs[idx]>>

\* The rows load_and_filter_data can return for one date: no value is
\* missing (dropna, line 103) and 0.01 < years < 2 (line 111).  atmVol
\* stands for the row's other columns.
BucketRows ==
    [teo : {1}, ticker : {"AAA", "BBB"}, years : {25, 35, 44, 45, 75}, atmVol : {1, 2}]

\* Lines 240-243: every row gets target_days and days_diff.
add_buckets(df) ==
    {[teo |-> r.teo, ticker |-> r.ticker, years |-> r.years, atmVol |-> r.atmVol,
      target_days |-> assign_closest_bucket(r.years)[1],
      days_diff |-> assign_closest_bucket(r.years)[2]] : r \in df}

\* sort_values('days_diff'): the default sort is not stable, so rows of
\* equal days_diff come out in any order.
sort_values(df) ==
    {sq \in [1..Cardinality(df) -> df] :
        /\ \A i, j \in 1..Cardinality(df) : i # j => sq[i] # sq[j]
        /\ \A i \in 1..(Cardinality(df) - 1) : sq[i].days_diff <= sq[i + 1].days_diff}

BucketKey(r) == <<r.teo, r.ticker, r.target_days>>

DropDiff(r) ==
    [teo |-> r.teo, ticker |-> r.ticker, target_days |-> r.target_days,
     years |-> r.years, atmVol |-> r.atmVol]

\* groupby(...).last() in place of first(): the last row of each group.
groupby_last(sorted) ==
    {DropDiff(sorted[i]) : i \in
        {k \in 1..Len(sorted) :
            \A j \in (k + 1)..Len(sorted) : BucketKey(sorted[j]) # BucketKey(sorted[k])}}

\* groupby(...) keeping all rows of a group but its last one, and the only
\* row of a group of one.
groupby_droplast(sorted) ==
    {DropDiff(sorted[i]) : i \in
        {k \in 1..Len(sorted) :
            \/ \E j \in (k + 1)..Len(sorted) : BucketKey(sorted[j]) = BucketKey(sorted[k])
            \/ \A j \in 1..Len(sorted) : j # k => BucketKey(sorted[j]) # BucketKey(sorted[k])}}

\* groupby(['teo', 'ticker', 'target_days'], as_index=False).first()
\* .drop(columns=['days_diff']): the first row of each group.  No column
\* holds a missing value, so first() takes every column from that row.
groupby_first(sorted) ==
    {DropDiff(sorted[i]) : i \in
        {k \in 1..Len(sorted) :
            \A j \in 1..(k - 1) : BucketKey(sorted[j]) # BucketKey(sorted[k])}}

\* The columns of a reduced row that lines 240-243 read and keep.
Unbucketed(rows) ==
    {[teo |-> r.teo, ticker |-> r.ticker, years |-> r.years, atmVol |-> r.atmVol] :
        r \in rows}

\* ------------------------------------ lines 252-304: the forward values
MaxFwdTickers == 2      \* tickers in the reduced frame

\* A number of df_melt's value column: q[1] / q[2], or its square root when
\* sqrt is set; <<0, 0>> is NaN.
PlainValue(v) == [sqrt |-> FALSE, q |-> IF v = NaN THEN <<0, 0>> ELSE <<v, 1>>]

NaNValue == [sqrt |-> FALSE, q |-> <<0, 0>>]

\* What a ticker has in one bucket: nothing, or <<atmVol, atmCen>>.
BucketCells == {<< >>} \cup ({1, 2} \X {1, 2})

\* The rows of one ticker: its 30- and 60-day buckets as chosen, the seven
\* buckets from 90 days on all present or all absent.
FwdTickerRows(i, c30, c60, rest) ==
    {[teo |-> 1, ticker |-> TickerNames[i], target_days |-> 30,
      atmVol |-> c[1], atmCen |-> c[2]] : c \in {c30} \ {<< >>}}
    \cup {[teo |-> 1, ticker |-> TickerNames[i], target_days |-> 60,
           atmVol |-> c[1], atmCen |-> c[2]] : c \in {c60} \ {<< >>}}
    \cup {[teo |-> 1, ticker |-> TickerNames[i], target_days |-> TARGET_DAYS[k],
           atmVol |-> 1, atmCen |-> 1] : k \in IF rest THEN 3..Len(TARGET_DAYS) ELSE {}}

RECURSIVE FwdFrames(_)
FwdFrames(n) ==
    IF n = 0 THEN {{}}
    ELSE {F \cup FwdTickerRows(n, c30, c60, rest) :
             F \in FwdFrames(n - 1), c30 \in BucketCells, c60 \in BucketCells,
             rest \in BOOLEAN}

\* df_all.pivot(index=['teo', 'ticker'], columns='target_days',
\* values=col): one row per (teo, ticker) of the frame, one column per
\* target_days value that occurs in the frame, NaN where the (teo, ticker)
\* has no row for the column.
pivot(df, col) ==
    LET columns == {r.target_days : r \in df}
    IN  {[teo |-> x.teo, ticker |-> x.ticker,
          cells |-> [t \in columns |->
                       IF \E r \in df : r.teo = x.teo /\ r.ticker = x.ticker /\ r.target_days = t
                       THEN (CHOOSE r \in df : r.teo = x.teo /\ r.ticker = x.ticker
                                                /\ r.target_days = t)[col]
                       ELSE NaN]] : x \in df}

TARGET_PAIRS == [k \in 1..(Len(TARGET_DAYS) - 1) |-> <<TARGET_DAYS[k], TARGET_DAYS[k + 1]>>]

\* Lines 261-268: np.sqrt((v2**2 * T2 - v1**2 * T1) / (T2 - T1)) with
\* T = days / 365.0; the 365 cancels.  NaN operands give NaN, and np.sqrt of
\* a negative number is NaN (with a RuntimeWarning, no exception).
forward_value(v1, v2, T1d, T2d) ==
    IF v1 = NaN \/ v2 = NaN THEN NaNValue
    ELSE IF v2 * v2 * T2d - v1 * v1 * T1d < 0 THEN NaNValue
    ELSE [sqrt |-> TRUE, q |-> Ratio(v2 * v2 * T2d - v1 * v1 * T1d, T2d - T1d)]

\* pivot[col] raises KeyError when the frame has no column col: lines 267
\* and 278 read every target's column, and melt (lines 286-300) names them
\* all in value_vars.
forward_raises(pv) ==
    \E x \in pv : \E k \in 1..Len(TARGET_DAYS) : TARGET_DAYS[k] \notin DOMAIN x.cells

\* Lines 259-301 for one pivot: the forward columns are added, the frame is
\* melted to one row per (teo, ticker, column) and tagged with value_type.
\* expiry_label is <<T>> for a bucket column and <<T1, T2>> for fwd_T1_T2.
melt(pv, value_type) ==
    {[teo |-> x.teo, ticker |-> x.ticker, expiry_label |-> <<TARGET_DAYS[k]>>,
      value_type |-> value_type, value |-> PlainValue(x.cells[TARGET_DAYS[k]])] :
        x \in pv, k \in 1..Len(TARGET_DAYS)}
    \cup {[teo |-> x.teo, ticker |-> x.ticker, expiry_label |-> TARGET_PAIRS[k],
           value_type |-> value_type,
           value |-> forward_value(x.cells[TARGET_PAIRS[k][1]], x.cells[TARGET_PAIRS[k][2]],
                                   TARGET_PAIRS[k][1], TARGET_PAIRS[k][2])] :
        x \in pv, k \in 1..Len(TARGET_PAIRS)}

\* Line 304: pd.concat([vol_melt, cen_melt]).dropna()
concat_dropna(vol_melt, cen_melt) ==
    {r \in vol_melt \cup cen_melt : r.value # NaNValue}

\* ------------------------------------------------ lines 333-425: the joins
MaxAggTickers == 2      \* tickers in the joined frame

NameNaN == "nan"        \* Series.map found no entry

\* fs_industry_to_gic_code, by representatives: 1105 Steel -> 15,
\* 4805 Major Banks -> 40, 7005 Sovereign -> np.nan; a code that is no key
\* of the dict (1000) maps to NaN.
fs_industry_to_gic_code(code) ==
    CASE code = 1105 -> 15
      [] code = 4805 -> 40
      [] code = 7005 -> NaN
      [] OTHER -> NaN

gic_code_to_gic_name(gic_code) ==
    CASE gic_code = 15 -> "Materials"
      [] gic_code = 40 -> "Financials"
      [] OTHER -> NameNaN

\* One row of ds_trimmed.to_dataframe() (line 335) for a ticker, together
\* with what the left merges of lines 346 and 425 find for its
\* (teo, ticker): mktcap (NaN when the feed has none) and style (NaN when
\* style_daily has no row or no style yet).  value is never missing: line
\* 304 and line 335 drop such rows.
JoinedRows(i) ==
    {[teo |-> 1, ticker |-> TickerNames[i], expiry_label |-> "30",
      value_type |-> vt, value |-> i, fs_industry_code |-> c,
      mktcap |-> m, style |-> st] :
        vt \in {"atmVol", "atmCen"}, c \in {1105, 4805, 7005, 1000, NaN},
        m \in {NaN, 1, 20}, st \in {"Growth", StyleNaN}}

\* Frames with at most one row per ticker.
RECURSIVE JoinedFrames(_)
JoinedFrames(n) ==
    IF n = 0 THEN {{}}
    ELSE LET fewer == JoinedFrames(n - 1)
         IN  fewer \cup {F \cup {r} : F \in fewer, r \in JoinedRows(n)}

\* Lines 335-356 and 425: rows without industry code are dropped, the code
\* is mapped to the sector, rows without sector code or sector name are
\* dropped, market cap and style are merged in with how='left' (no row is
\* dropped) and the size is classified.
enrich(joined) ==
    LET coded == {r \in joined : r.fs_industry_code # NaN}
        mapped == {r \in coded :
                      /\ fs_industry_to_gic_code(r.fs_industry_code) # NaN
                      /\ gic_code_to_gic_name(fs_industry_to_gic_code(r.fs_industry_code)) # NameNaN}
    IN  {[teo |-> r.teo, ticker |-> r.ticker,
          gics_sector |-> gic_code_to_gic_name(fs_industry_to_gic_code(r.fs_industry_code)),
          size_category |-> classify_size(r.mktcap), style |-> r.style,
          expiry_label |-> r.expiry_label, value_type |-> r.value_type,
          value |-> r.value, market_cap |-> r.mktcap] : r \in mapped}

NaturalKey(r) == <<r.teo, r.gics_sector, r.size_category, r.style, r.expiry_label, r.value_type>>

\* The frame with its 'index' column set to first .. first + n - 1.
with_index(df, first) ==
    [i \in 1..Len(df) |->
        [index |-> first + i - 1, teo |-> df[i].teo, gics_sector |-> df[i].gics_sector,
         size_category |-> df[i].size_category, style |-> df[i].style,
         expiry_label |-> df[i].expiry_label, value_type |-> df[i].value_type,
         weighted_value |-> df[i].weighted_value]]

\* drop_duplicates(subset=[...], keep='last').
drop_duplicates_subset_last(df) ==
    LET key == [i \in 1..Len(df) |-> NaturalKey(df[i])]
    IN  KeepAt(df, {i \in 1..Len(df) : \A j \in (i + 1)..Len(df) : key[j] # key[i]})

\* drop_duplicates(subset=[...]): keeps the first row of each natural key.
drop_duplicates_subset(df) ==
    LET key == [i \in 1..Len(df) |-> NaturalKey(df[i])]
    IN  KeepAt(df, {i \in 1..Len(df) : \A j \in 1..(i - 1) : key[j] # key[i]})

\* The rows written when the CubeStore is created (main, lines 557-561, and
\* the else branch of append_to_existing_output).
new_output_rows(new_data) == with_index(new_data, 0)

\* append_to_existing_output without its drop_duplicates.
append_output_combined_nodedup(df_existing, new_data) ==
    with_index(df_existing \o with_index(new_data, Len(df_existing)), 0)

\* append_to_existing_output, lines 132-150: df_combined.
append_output_combined(df_existing, new_data) ==
    LET df_new == with_index(new_data, Len(df_existing))
        df_combined == drop_duplicates_subset(df_existing \o df_new)
    IN  with_index(df_combined, 0)

\* get_latest_date_in_zarr: the largest teo, None when the store cannot be
\* read or holds no row.
get_latest_date_in_zarr(store, openOk) ==
    IF ~openOk \/ ~store.exists \/ store.rows = << >> THEN None
    ELSE CHOOSE d \in {store.rows[i].teo : i \in 1..Len(store.rows)} :
            \A j \in 1..Len(store.rows) : store.rows[j].teo <= d

SurfaceTeo(store) == [exists |-> store.exists,
                      rows |-> [i \in 1..Len(store.rows) |-> [teo |-> store.rows[i].rec.teo]]]

\* check_incremental_processing_needed: <<needs_processing, output_latest>>.
check_incremental_processing_needed(surface, cube, inputOk, outputOk) ==
    LET input_latest == get_latest_date_in_zarr(SurfaceTeo(surface), inputOk)
        output_latest == get_latest_date_in_zarr(cube, outputOk)
    IN  IF ~cube.exists THEN <<TRUE, None>>
        ELSE IF input_latest = None THEN <<TRUE, None>>
        ELSE IF output_latest = None THEN <<TRUE, None>>
        ELSE IF input_latest > output_latest THEN <<TRUE, output_latest>>
        ELSE <<FALSE, None>>

\* load_and_filter_data without the date filter of lines 105-108.
load_dates_all(surface, start_date) ==
    {surface.rows[i].rec.teo : i \in 1..Len(surface.rows)}

\* load_and_filter_data, lines 105-108: the dates that pass the start date.
load_dates(surface, start_date) ==
    {surface.rows[i].rec.teo : i \in 1..Len(surface.rows)} \ (IF start_date = None THEN {} ELSE 1..(start_date - 1))

\* run_script in run_full_pipeline.py: success is a zero return code.
run_script_success(returncode) == returncode = 0

\* ------------------------------------------------- run_full_pipeline.py
\* The steps of main() in the order of the module docstring.
PipelineSteps == <<"download", "processing", "ticker", "iv", "upload">>

\* run_script, lines 150-192: False when the script file is missing, True
\* in a dry run, else whether the return code is zero (an exception of
\* subprocess.run counts as failure).
run_script(scriptFound, dry_run, returncode) ==
    IF ~scriptFound THEN FALSE
    ELSE IF dry_run THEN TRUE
    ELSE run_script_success(returncode)

\* run_gsutil_command, lines 269-298.
run_gsutil_command(dry_run, returncode) ==
    IF dry_run THEN TRUE ELSE run_script_success(returncode)

\* check_pipeline_status, lines 194-247.
check_pipeline_status(zarrExists, zipFiles, latestZip) ==
    [needs_download |-> TRUE,
     needs_processing |-> IF ~zarrExists THEN TRUE ELSE zipFiles,
     needs_iv_dataset |-> zarrExists,
     needs_upload |-> (IF ~zarrExists THEN TRUE ELSE zipFiles) \/ zarrExists,
     latest_zip_date |-> latestZip,
     zarr_exists |-> zarrExists]

\* A main() in which no failed step ends the invocation.
stops_pipeline_never(step) == FALSE

\* main(): a failed download (lines 350-352) or processing step (lines
\* 374-376) returns 1 at once; a failed ticker download, IV production or
\* upload only clears overall_success.
stops_pipeline(step) == step \in {"download", "processing"}

VARIABLES
    zipDir,          \* archives in INPUT_DIR
    surfaceStore,    \* OUTPUT_ZARR on disk
    zpc,             \* position of 2_zips_to_zarrs_combined.py main()
    zopenFailed,     \* xr.open_zarr raised inside get_existing_zarr_dates
    existing_dates,
    new_zip_files,
    all_dataframes,
    existing_df,     \* what append_to_existing_zarr_fixed loaded
    combined_df,     \* the rows handed to to_zarr
    zexit,           \* exit status of the last run: 0, 1, or 2 when killed
    zruns,
    surfacePrior,    \* the store as it was when the last merge began
    surfaceNext,     \* the complete store that merge was to produce
    cubeStore,       \* output/aggregated_iv_cross_with_totals_flat.zarr
    cubeTemp,        \* the same path + '.temp'
    ipc,             \* position of 3_produce_iv_dataset_full.py main()
    agg_all,         \* the candidate batch
    iappend,         \* inside the try block of append_to_existing_output
    iexit,           \* exit status of the last run: 0, 1, or 2 when killed
    ioutcome,        \* how the last run ended
    iruns,
    cubePrior,       \* the store as it was when the last merge began
    cubeNext,        \* the complete store handed to to_zarr
    oAB,             \* a store that receives oB1, then oB2
    oBA,             \* a store that receives oB2, then oB1
    oB1,
    oB2,
    oab,             \* batches merged into oAB
    oba,             \* batches merged into oBA
    df_joined,       \* df at line 334 with the values the two left merges find
    df_enriched,     \* df at line 425
    agg_batch,       \* agg_all at line 546
    apc,             \* position in lines 333-546
    df_all,          \* df_all at line 230
    df_bucketed,     \* df_all at line 243
    df_reduced,      \* df_all at line 250
    df_again,        \* lines 240-250 applied to df_reduced
    bpc,             \* position in lines 232-250
    df_fwd,          \* df_all at line 250, columns teo, ticker, target_days, atmVol, atmCen
    pivot_vol,       \* line 253
    pivot_cen,       \* line 254
    df_melt,         \* line 304
    fpc,             \* position in lines 252-304
    ds_opened,       \* ds.to_dataframe() of line 103
    load_start,      \* load_and_filter_data's start_date
    df_loaded,       \* df_all after line 108
    df_filtered,     \* df_all after line 116
    lpc,             \* position in load_and_filter_data
    style_scores,    \* style_df: the scores of each (ticker, teo)
    style_ranked,    \* line 390
    style_daily,     \* line 414
    df_styled,       \* df after the merge of line 425
    spc,             \* position in lines 374-425
    iforce,          \* args.force of the last aggregation run
    idetermined,     \* the run found input_latest and output_latest
    args,            \* the orchestrator's --dry-run and --force
    zarr_exists,     \* the surface Zarr store of check_pipeline_status is on disk
    zip_files,       \* the ZIP directory holds some *.zip file
    latest_zip_date, \* get_latest_zip_date of the ZIP directory
    status,          \* main()'s status dictionary
    steps_started,   \* the steps main() has started, in order
    steps_failed,    \* the steps that reported failure
    overall_success,
    steps_run,
    pexit,           \* main()'s return value once ppc is "done"
    ppc              \* position in the orchestrator's main()

zvars == <<zipDir, surfaceStore, zpc, zopenFailed, existing_dates, new_zip_files,
           all_dataframes, existing_df, combined_df, zexit, zruns,
           surfacePrior, surfaceNext>>

cvars == <<cubeStore, cubeTemp, ipc, agg_all, iappend, iexit, ioutcome,
           iruns, cubePrior, cubeNext>>

ovars == <<oAB, oBA, oB1, oB2, oab, oba>>

avars == <<df_joined, df_enriched, agg_batch, apc>>

bvars == <<df_all, df_bucketed, df_reduced, df_again, bpc>>

fvars == <<df_fwd, pivot_vol, pivot_cen, df_melt, fpc>>

lvars == <<ds_opened, load_start, df_loaded, df_filtered, lpc>>

svars == <<style_scores, style_ranked, style_daily, df_styled, spc>>

rvars == <<iforce, idetermined>>

pvars == <<args, zarr_exists, zip_files, latest_zip_date, status, steps_started,
           steps_failed, overall_success, steps_run, pexit, ppc>>

vars == <<zvars, cvars, ovars, avars, bvars, fvars, lvars, svars, rvars, pvars>>

ZInit ==
    /\ zipDir = {}
    /\ surfaceStore = AbsentStore
    /\ zpc = "idle"
    /\ zopenFailed = FALSE
    /\ existing_dates = {}
    /\ new_zip_files = << >>
    /\ all_dataframes = << >>
    /\ existing_df = << >>
    /\ combined_df = << >>
    /\ zexit = 0
    /\ zruns = 0
    /\ surfacePrior = AbsentStore
    /\ surfaceNext = AbsentStore

CInit ==
    /\ cubeStore = AbsentStore
    /\ cubeTemp = AbsentStore
    /\ ipc = "idle"
    /\ agg_all = << >>
    /\ iappend = FALSE
    /\ iexit = 0
    /\ ioutcome = "none"
    /\ iruns = 0
    /\ cubePrior = AbsentStore
    /\ cubeNext = AbsentStore

OIdle ==
    /\ oAB = AbsentStore
    /\ oBA = AbsentStore
    /\ oB1 = << >>
    /\ oB2 = << >>
    /\ oab = 0
    /\ oba = 0

AIdle ==
    /\ df_joined = {}
    /\ df_enriched = {}
    /\ agg_batch = << >>
    /\ apc = "idle"

BIdle ==
    /\ df_all = {}
    /\ df_bucketed = {}
    /\ df_reduced = {}
    /\ df_again = {}
    /\ bpc = "idle"

FIdle ==
    /\ df_fwd = {}
    /\ pivot_vol = {}
    /\ pivot_cen = {}
    /\ df_melt = {}
    /\ fpc = "idle"

LIdle ==
    /\ ds_opened = {}
    /\ load_start = None
    /\ df_loaded = {}
    /\ df_filtered = {}
    /\ lpc = "idle"

SIdle ==
    /\ style_scores = << >>
    /\ style_ranked = {}
    /\ style_daily = {}
    /\ df_styled = {}
    /\ spc = "idle"

RIdle ==
    /\ iforce = FALSE
    /\ idetermined = FALSE

PIdle ==
    /\ args = [dry_run |-> FALSE, force |-> FALSE]
    /\ zarr_exists = FALSE
    /\ zip_files = FALSE
    /\ latest_zip_date = None
    /\ status = check_pipeline_status(FALSE, FALSE, None)
    /\ steps_started = << >>
    /\ steps_failed = {}
    /\ overall_success = TRUE
    /\ steps_run = 0
    /\ pexit = 0
    /\ ppc = "idle"

\* The download step (1_download_zips.py) puts an archive in INPUT_DIR.
AddZip ==
    /\ zpc = "idle"
    /\ Cardinality(zipDir) < MaxZips
    /\ \E f \in ZipFiles \ zipDir : zipDir' = zipDir \cup {f}
    /\ UNCHANGED <<surfaceStore, zpc, zopenFailed, existing_dates, new_zip_files,
                   all_dataframes, existing_df, combined_df, zexit, zruns,
                   surfacePrior, surfaceNext>>
    /\ UNCHANGED <<cvars, ovars, avars, bvars, fvars, lvars, svars, rvars, pvars>>

ZReset ==
    /\ new_zip_files' = << >>
    /\ all_dataframes' = << >>
    /\ existing_df' = << >>
    /\ combined_df' = << >>

\* main(), lines 248-263: existing dates, new archives, early return.
ZipStart ==
    /\ zpc = "idle"
    /\ zruns < MaxRuns
    /\ zruns' = zruns + 1
    /\ \E openOk \in BOOLEAN :
         LET dates == get_existing_zarr_dates(surfaceStore, openOk)
             files == get_new_zip_files(zipDir, dates)
         IN  /\ zopenFailed' = (surfaceStore.exists /\ ~openOk)
             /\ existing_dates' = dates
             /\ IF get_new_zip_files_raises(zipDir)
                  THEN \* ValueError leaves main(): the interpreter exits 1
                       /\ zpc' = "idle"
                       /\ zexit' = 1
                       /\ ZReset
                  ELSE IF files = << >>
                  THEN /\ zpc' = "idle"
                       /\ zexit' = 0
                       /\ ZReset
                  ELSE /\ zpc' = "parse"
                       /\ new_zip_files' = files
                       /\ all_dataframes' = << >>
                       /\ UNCHANGED <<existing_df, combined_df, zexit>>
    /\ UNCHANGED <<zipDir, surfaceStore, surfacePrior, surfaceNext>>
    /\ UNCHANGED <<cvars, ovars, avars, bvars, fvars, lvars, svars, rvars, pvars>>

\* main(), lines 269-284: one archive of the loop.
ZipParse ==
    /\ zpc = "parse"
    /\ new_zip_files # << >>
    /\ LET df == process_zip_file(Head(new_zip_files))
       IN  all_dataframes' = IF df # << >> THEN Append(all_dataframes, df)
                             ELSE all_dataframes
    /\ new_zip_files' = Tail(new_zip_files)
    /\ UNCHANGED <<zipDir, surfaceStore, zpc, zopenFailed, existing_dates,
                   existing_df, combined_df, zexit, zruns, surfacePrior, surfaceNext>>
    /\ UNCHANGED <<cvars, ovars, avars, bvars, fvars, lvars, svars, rvars, pvars>>

\* main(), lines 287-292, and the part of save_flat_dataset_to_zarr /
\* append_to_existing_zarr_fixed that precedes to_zarr.
ZipSave ==
    /\ zpc = "parse"
    /\ new_zip_files = << >>
    /\ IF all_dataframes = << >>
         THEN \* both functions return at once on an empty list
              /\ zpc' = "idle"
              /\ zexit' = 0
              /\ ZReset
              /\ UNCHANGED <<surfacePrior, surfaceNext>>
         ELSE IF surfaceStore.exists
         THEN \E openOk \in BOOLEAN :
                IF ~openOk
                  THEN \* xr.open_zarr raises, nothing catches it
                       /\ zpc' = "idle"
                       /\ zexit' = 1
                       /\ ZReset
                       /\ UNCHANGED <<surfacePrior, surfaceNext>>
                  ELSE /\ existing_df' = surfaceStore.rows
                       /\ combined_df' = merge_surface(surfaceStore, all_dataframes).rows
                       /\ surfacePrior' = surfaceStore
                       /\ surfaceNext' = merge_surface(surfaceStore, all_dataframes)
                       /\ zpc' = "to_zarr"
                       /\ UNCHANGED <<new_zip_files, all_dataframes, zexit>>
         ELSE /\ combined_df' = merge_surface(surfaceStore, all_dataframes).rows
              /\ surfacePrior' = surfaceStore
              /\ surfaceNext' = merge_surface(surfaceStore, all_dataframes)
              /\ zpc' = "to_zarr"
              /\ UNCHANGED <<new_zip_files, all_dataframes, existing_df, zexit>>
    /\ UNCHANGED <<zipDir, surfaceStore, zopenFailed, existing_dates, zruns>>
    /\ UNCHANGED <<cvars, ovars, avars, bvars, fvars, lvars, svars, rvars, pvars>>

\* to_zarr(mode='w'): the target is opened for overwrite and emptied.
ZipZarrOpen ==
    /\ zpc = "to_zarr"
    /\ surfaceStore' = [exists |-> TRUE, rows |-> << >>]
    /\ zpc' = "writing"
    /\ UNCHANGED <<zipDir, zopenFailed, existing_dates, new_zip_files, all_dataframes,
                   existing_df, combined_df, zexit, zruns, surfacePrior, surfaceNext>>
    /\ UNCHANGED <<cvars, ovars, avars, bvars, fvars, lvars, svars, rvars, pvars>>

\* to_zarr: the arrays of the dataset are written into the emptied target.
ZipZarrWrite ==
    /\ zpc = "writing"
    /\ Len(surfaceStore.rows) < Len(combined_df)
    /\ surfaceStore' = [exists |-> TRUE, rows |-> combined_df]
    /\ UNCHANGED <<zipDir, zpc, zopenFailed, existing_dates, new_zip_files, all_dataframes,
                   existing_df, combined_df, zexit, zruns, surfacePrior, surfaceNext>>
    /\ UNCHANGED <<cvars, ovars, avars, bvars, fvars, lvars, svars, rvars, pvars>>

\* to_zarr returns and main() ends.
ZipFinish ==
    /\ zpc = "writing"
    /\ Len(surfaceStore.rows) = Len(combined_df)
    /\ zpc' = "idle"
    /\ zexit' = 0
    /\ ZReset
    /\ UNCHANGED <<zipDir, surfaceStore, zopenFailed, existing_dates, zruns,
                   surfacePrior, surfaceNext>>
    /\ UNCHANGED <<cvars, ovars, avars, bvars, fvars, lvars, svars, rvars, pvars>>

\* The process is interrupted; only the disk keeps its state.
ZipCrash ==
    /\ zpc # "idle"
    /\ zpc' = "idle"
    /\ zexit' = 2
    /\ ZReset
    /\ UNCHANGED <<zipDir, surfaceStore, zopenFailed, existing_dates, zruns,
                   surfacePrior, surfaceNext>>
    /\ UNCHANGED <<cvars, ovars, avars, bvars, fvars, lvars, svars, rvars, pvars>>

NextSurface ==
    \/ AddZip
    \/ ZipStart
    \/ ZipParse
    \/ ZipSave
    \/ ZipZarrOpen
    \/ ZipZarrWrite
    \/ ZipFinish
    \/ ZipCrash

InitSurface ==
    /\ ZInit
    /\ CInit
    /\ OIdle
    /\ AIdle
    /\ BIdle
    /\ FIdle
    /\ LIdle
    /\ SIdle
    /\ RIdle
    /\ PIdle

SpecSurface == InitSurface /\ [][NextSurface]_vars

\* ----------------------------------------------- the aggregation script
\* Script 2 has merged one more trading day into the SurfaceStore.
IvSurfaceGrows ==
    /\ ipc = "idle"
    /\ \E r \in SurfaceRecords :
         /\ \A i \in 1..Len(surfaceStore.rows) : surfaceStore.rows[i].rec.teo < r.teo
         /\ surfaceStore' = merge_surface(surfaceStore, <<<<r>>>>)
    /\ UNCHANGED <<zipDir, zpc, zopenFailed, existing_dates, new_zip_files,
                   all_dataframes, existing_df, combined_df, zexit, zruns,
                   surfacePrior, surfaceNext>>
    /\ UNCHANGED <<cvars, ovars, avars, bvars, fvars, lvars, svars, rvars, pvars>>

\* main(), lines 198-230 and 548-566, with append_to_existing_output up to
\* its to_zarr: the incremental check, the load, the aggregation (its
\* result drawn from the rows the loaded dates can give) and the choice
\* between creating the store and appending to it.
IvStart ==
    /\ ipc = "idle"
    /\ iruns < MaxIvRuns
    /\ iruns' = iruns + 1
    /\ \E mode \in {<<force,
                      /\ ~force
                      /\ cubeStore.exists
                      /\ get_latest_date_in_zarr(SurfaceTeo(surfaceStore), inputOk) # None
                      /\ get_latest_date_in_zarr(cubeStore, outputOk) # None,
                      \* --force sets needs_processing and no output_latest
                      \* (lines 209-211)
                      IF force THEN <<TRUE, None>>
                      ELSE check_incremental_processing_needed(surfaceStore, cubeStore,
                                                               inputOk, outputOk)>> :
                        force, inputOk, outputOk \in BOOLEAN} :
         \E loadOk \in BOOLEAN :
         LET chk == mode[3]
             start_date == IF chk[2] # None THEN chk[2] + 1 ELSE None
             dates == load_dates(surfaceStore, start_date)
         IN  /\ iforce' = mode[1]
             /\ idetermined' = mode[2]
             /\ IF ~chk[1]
                  THEN /\ ioutcome' = "uptodate"
                       /\ iexit' = 0
                       /\ UNCHANGED <<cubeTemp, ipc, agg_all, iappend, cubePrior, cubeNext>>
                ELSE IF ~loadOk \/ ~surfaceStore.exists
                  THEN \* xr.open_zarr raises in load_and_filter_data
                       /\ ioutcome' = "error"
                       /\ iexit' = 1
                       /\ UNCHANGED <<cubeTemp, ipc, agg_all, iappend, cubePrior, cubeNext>>
                ELSE IF dates = {}
                  THEN /\ ioutcome' = "nodata"
                       /\ iexit' = 0
                       /\ UNCHANGED <<cubeTemp, ipc, agg_all, iappend, cubePrior, cubeNext>>
                ELSE \E E \in {X \in EnrichedSets : \A r \in X : r.teo \in dates} :
                     \E new_data \in {CubeBatches[E]} :
                     \E target \in {IF cubeStore.exists
                                    THEN append_output_combined(cubeStore.rows, new_data)
                                    ELSE new_output_rows(new_data)} :
                       /\ agg_all' = new_data
                       /\ ioutcome' = "running"
                       /\ cubePrior' = cubeStore
                       /\ cubeNext' = [exists |-> TRUE, rows |-> target]
                       /\ iappend' = cubeStore.exists
                       /\ \E tryOk \in BOOLEAN :
                            ipc' = IF cubeStore.exists /\ ~tryOk THEN "fallback" ELSE "to_zarr"
                       /\ UNCHANGED <<cubeTemp, iexit>>
    /\ UNCHANGED <<cubeStore>>
    /\ UNCHANGED <<zvars, ovars, avars, bvars, fvars, lvars, svars, pvars>>

\* to_zarr(output_path, mode='w'): the target is opened for overwrite and
\* emptied.
IvZarrOpen ==
    /\ ipc = "to_zarr"
    /\ cubeStore' = [exists |-> TRUE, rows |-> << >>]
    /\ ipc' = "writing"
    /\ UNCHANGED <<cubeTemp, agg_all, iappend, iexit, ioutcome, iruns,
                   cubePrior, cubeNext>>
    /\ UNCHANGED <<zvars, ovars, avars, bvars, fvars, lvars, svars, rvars, pvars>>

\* to_zarr: the arrays of the dataset are written into the emptied target.
IvZarrWrite ==
    /\ ipc = "writing"
    /\ Len(cubeStore.rows) < Len(cubeNext.rows)
    /\ cubeStore' = cubeNext
    /\ UNCHANGED <<cubeTemp, ipc, agg_all, iappend, iexit, ioutcome, iruns,
                   cubePrior, cubeNext>>
    /\ UNCHANGED <<zvars, ovars, avars, bvars, fvars, lvars, svars, rvars, pvars>>

\* to_zarr raises while writing.  Inside append_to_existing_output the
\* except clause takes over; in main() nothing catches it.
IvZarrFail ==
    /\ ipc = "writing"
    /\ IF iappend
         THEN /\ ipc' = "fallback"
              /\ UNCHANGED <<iexit, ioutcome>>
         ELSE /\ ipc' = "idle"
              /\ iexit' = 1
              /\ ioutcome' = "error"
    /\ UNCHANGED <<cubeStore, cubeTemp, agg_all, iappend, iruns,
                   cubePrior, cubeNext>>
    /\ UNCHANGED <<zvars, ovars, avars, bvars, fvars, lvars, svars, rvars, pvars>>

\* to_zarr returns; main() logs completion and returns 0.
IvFinish ==
    /\ ipc = "writing"
    /\ Len(cubeStore.rows) = Len(cubeNext.rows)
    /\ ipc' = "idle"
    /\ iexit' = 0
    /\ ioutcome' = IF iappend THEN "appended" ELSE "created"
    /\ UNCHANGED <<cubeStore, cubeTemp, agg_all, iappend, iruns,
                   cubePrior, cubeNext>>
    /\ UNCHANGED <<zvars, ovars, avars, bvars, fvars, lvars, svars, rvars, pvars>>

\* append_to_existing_output, lines 159-171: the except clause writes the
\* new batch to output_path + '.temp' and returns; main() then logs
\* completion and returns 0.
IvFallback ==
    /\ ipc = "fallback"
    /\ cubeTemp' = [exists |-> TRUE, rows |-> new_output_rows(agg_all)]
    /\ ipc' = "idle"
    /\ iexit' = 0
    /\ ioutcome' = "fallback"
    /\ UNCHANGED <<cubeStore, agg_all, iappend, iruns, cubePrior, cubeNext>>
    /\ UNCHANGED <<zvars, ovars, avars, bvars, fvars, lvars, svars, rvars, pvars>>

\* The process is interrupted; only the disk keeps its state.
IvCrash ==
    /\ ipc # "idle"
    /\ ipc' = "idle"
    /\ iexit' = 2
    /\ ioutcome' = "killed"
    /\ UNCHANGED <<cubeStore, cubeTemp, agg_all, iappend, iruns,
                   cubePrior, cubeNext>>
    /\ UNCHANGED <<zvars, ovars, avars, bvars, fvars, lvars, svars, rvars, pvars>>

NextCube ==
    \/ IvSurfaceGrows
    \/ IvStart
    \/ IvZarrOpen
    \/ IvZarrWrite
    \/ IvZarrFail
    \/ IvFinish
    \/ IvFallback
    \/ IvCrash

\* The aggregation script is run once a SurfaceStore exists.  The CubeStore
\* is absent or as a first run on that SurfaceStore created it.
InitCube ==
    /\ zipDir = {}
    /\ surfaceStore \in {merge_surface(AbsentStore, <<<<r>>>>) : r \in SurfaceRecords}
    /\ zpc = "idle"
    /\ zopenFailed = FALSE
    /\ existing_dates = {}
    /\ new_zip_files = << >>
    /\ all_dataframes = << >>
    /\ existing_df = << >>
    /\ combined_df = << >>
    /\ zexit = 0
    /\ zruns = 0
    /\ surfacePrior = AbsentStore
    /\ surfaceNext = AbsentStore
    /\ cubeStore \in {AbsentStore} \cup
          {[exists |-> TRUE, rows |-> new_output_rows(CubeBatches[E])] :
              E \in {X \in EnrichedSets : \A r \in X : r.teo \in load_dates(surfaceStore, None)}}
    /\ cubeTemp = AbsentStore
    /\ ipc = "idle"
    /\ agg_all = << >>
    /\ iappend = FALSE
    /\ iexit = 0
    /\ ioutcome = "none"
    /\ iruns = 0
    /\ cubePrior = AbsentStore
    /\ cubeNext = AbsentStore
    /\ OIdle
    /\ AIdle
    /\ BIdle
    /\ FIdle
    /\ LIdle
    /\ SIdle
    /\ RIdle
    /\ PIdle

SpecCube == InitCube /\ [][NextCube]_vars

\* The merger of 2_zips_to_zarrs_combined.py takes any archive of the ZIP
\* directory, so a date earlier than the latest stored one can enter the
\* SurfaceStore between two runs of the aggregation script.
IvSurfaceLate ==
    /\ ipc = "idle"
    /\ \E r \in SurfaceRecords :
         /\ \A i \in 1..Len(surfaceStore.rows) : surfaceStore.rows[i].rec.teo # r.teo
         /\ \E i \in 1..Len(surfaceStore.rows) : surfaceStore.rows[i].rec.teo > r.teo
         /\ surfaceStore' = merge_surface(surfaceStore, <<<<r>>>>)
    /\ UNCHANGED <<zipDir, zpc, zopenFailed, existing_dates, new_zip_files,
                   all_dataframes, existing_df, combined_df, zexit, zruns,
                   surfacePrior, surfaceNext>>
    /\ UNCHANGED <<cvars, ovars, avars, bvars, fvars, lvars, svars, rvars, pvars>>

NextCubeLate ==
    \/ NextCube
    \/ IvSurfaceLate

SpecCubeLate == InitCube /\ [][NextCubeLate]_vars

\* --------------------------------------------- two orders of two merges
MaxBatchFrames == 3     \* frames in one batch

\* What a merge does with a batch depends on the concatenation of its
\* frames only: frames of one line give every concatenation.
OrderBatches == SeqsUpTo({<<r>> : r \in SurfaceRecords}, MaxBatchFrames)

BatchDates(b) == {Concat(b)[i].teo : i \in 1..Len(Concat(b))}

InitOrder ==
    /\ ZInit
    /\ CInit
    /\ oB1 \in OrderBatches
    /\ oB2 \in OrderBatches
    /\ BatchDates(oB1) \cap BatchDates(oB2) = {}
    /\ oAB \in {merge_surface(AbsentStore, b) : b \in {c \in OrderBatches : Len(c) <= 1}}
    /\ oBA = oAB
    /\ oab = 0
    /\ oba = 0
    /\ AIdle
    /\ BIdle
    /\ FIdle
    /\ LIdle
    /\ SIdle
    /\ RIdle
    /\ PIdle

\* One run of lines 286-292 on the first store: oB1, then oB2.
OrderMergeAB ==
    /\ oab < 2
    /\ oAB' = merge_surface(oAB, IF oab = 0 THEN oB1 ELSE oB2)
    /\ oab' = oab + 1
    /\ UNCHANGED <<oBA, oB1, oB2, oba>>
    /\ UNCHANGED <<zvars, cvars, avars, bvars, fvars, lvars, svars, rvars, pvars>>

\* One run of lines 286-292 on the second store: oB2, then oB1.
OrderMergeBA ==
    /\ oba < 2
    /\ oBA' = merge_surface(oBA, IF oba = 0 THEN oB2 ELSE oB1)
    /\ oba' = oba + 1
    /\ UNCHANGED <<oAB, oB1, oB2, oab>>
    /\ UNCHANGED <<zvars, cvars, avars, bvars, fvars, lvars, svars, rvars, pvars>>

NextOrder ==
    \/ OrderMergeAB
    \/ OrderMergeBA

SpecOrder == InitOrder /\ [][NextOrder]_vars

\* ------------------------------------ lines 333-546 on one joined frame
AggEnrich ==
    /\ apc = "joined"
    /\ df_enriched' = enrich(df_joined)
    /\ apc' = "enriched"
    /\ UNCHANGED <<df_joined, agg_batch>>
    /\ UNCHANGED <<zvars, cvars, ovars, bvars, fvars, lvars, svars, rvars, pvars>>

AggCube ==
    /\ apc = "enriched"
    /\ agg_batch' = cube_batch(df_enriched)
    /\ apc' = "done"
    /\ UNCHANGED <<df_joined, df_enriched>>
    /\ UNCHANGED <<zvars, cvars, ovars, bvars, fvars, lvars, svars, rvars, pvars>>

NextAggregate ==
    \/ AggEnrich
    \/ AggCube

InitAggregate ==
    /\ ZInit
    /\ CInit
    /\ OIdle
    /\ BIdle
    /\ df_joined \in JoinedFrames(MaxAggTickers)
    /\ df_enriched = {}
    /\ agg_batch = << >>
    /\ apc = "joined"
    /\ FIdle
    /\ LIdle
    /\ SIdle
    /\ RIdle
    /\ PIdle

SpecAggregate == InitAggregate /\ [][NextAggregate]_vars

\* ---------------------------------------- lines 232-250 on one df_all
BucketAssign ==
    /\ bpc = "loaded"
    /\ df_bucketed' = add_buckets(df_all)
    /\ bpc' = "bucketed"
    /\ UNCHANGED <<df_all, df_reduced, df_again>>
    /\ UNCHANGED <<zvars, cvars, ovars, avars, fvars, lvars, svars, rvars, pvars>>

BucketReduce ==
    /\ bpc = "bucketed"
    /\ \E sorted \in sort_values(df_bucketed) : df_reduced' = groupby_first(sorted)
    /\ bpc' = "reduced"
    /\ UNCHANGED <<df_all, df_bucketed, df_again>>
    /\ UNCHANGED <<zvars, cvars, ovars, avars, fvars, lvars, svars, rvars, pvars>>

\* Lines 240-250 once more, on their own result.
BucketAgain ==
    /\ bpc = "reduced"
    /\ \E sorted \in sort_values(add_buckets(Unbucketed(df_reduced))) :
         df_again' = groupby_first(sorted)
    /\ bpc' = "again"
    /\ UNCHANGED <<df_all, df_bucketed, df_reduced>>
    /\ UNCHANGED <<zvars, cvars, ovars, avars, fvars, lvars, svars, rvars, pvars>>

NextBucket ==
    \/ BucketAssign
    \/ BucketReduce
    \/ BucketAgain

InitBucket ==
    /\ ZInit
    /\ CInit
    /\ OIdle
    /\ AIdle
    /\ df_all \in {Range(sq) : sq \in SeqsUpTo(BucketRows, MaxCandidates)}
    /\ df_bucketed = {}
    /\ df_reduced = {}
    /\ df_again = {}
    /\ bpc = "loaded"
    /\ FIdle
    /\ LIdle
    /\ SIdle
    /\ RIdle
    /\ PIdle

SpecBucket == InitBucket /\ [][NextBucket]_vars

\* ----------------------------------- lines 252-304 on one reduced frame
FwdPivot ==
    /\ fpc = "reduced"
    /\ pivot_vol' = pivot(df_fwd, "atmVol")
    /\ pivot_cen' = pivot(df_fwd, "atmCen")
    /\ fpc' = "pivoted"
    /\ UNCHANGED <<df_fwd, df_melt>>
    /\ UNCHANGED <<zvars, cvars, ovars, avars, bvars, lvars, svars, rvars, pvars>>

FwdForward ==
    /\ fpc = "pivoted"
    /\ IF forward_raises(pivot_vol) \/ forward_raises(pivot_cen)
         THEN \* KeyError leaves main()
              /\ fpc' = "error"
              /\ UNCHANGED df_melt
         ELSE /\ df_melt' = concat_dropna(melt(pivot_vol, "atmVol"), melt(pivot_cen, "atmCen"))
              /\ fpc' = "done"
    /\ UNCHANGED <<df_fwd, pivot_vol, pivot_cen>>
    /\ UNCHANGED <<zvars, cvars, ovars, avars, bvars, lvars, svars, rvars, pvars>>

NextForward ==
    \/ FwdPivot
    \/ FwdForward

InitForward ==
    /\ ZInit
    /\ CInit
    /\ OIdle
    /\ AIdle
    /\ BIdle
    /\ df_fwd \in FwdFrames(MaxFwdTickers) \ {{}}
    /\ pivot_vol = {}
    /\ pivot_cen = {}
    /\ df_melt = {}
    /\ fpc = "reduced"
    /\ LIdle
    /\ SIdle
    /\ RIdle
    /\ PIdle

SpecForward == InitForward /\ [][NextForward]_vars

\* ------------------------------------ load_and_filter_data on one store
LoadOpen ==
    /\ lpc = "opened"
    /\ df_loaded' = filter_start_date(dropna(ds_opened), load_start)
    /\ lpc' = "loaded"
    /\ UNCHANGED <<ds_opened, load_start, df_filtered>>
    /\ UNCHANGED <<zvars, cvars, ovars, avars, bvars, fvars, svars, rvars, pvars>>

LoadFilter ==
    /\ lpc = "loaded"
    /\ df_filtered' = liquidity_filter(df_loaded)
    /\ lpc' = "filtered"
    /\ UNCHANGED <<ds_opened, load_start, df_loaded>>
    /\ UNCHANGED <<zvars, cvars, ovars, avars, bvars, fvars, svars, rvars, pvars>>

NextLoad ==
    \/ LoadOpen
    \/ LoadFilter

InitLoad ==
    /\ ZInit
    /\ CInit
    /\ OIdle
    /\ AIdle
    /\ BIdle
    /\ FIdle
    /\ ds_opened \in {Range(sq) : sq \in SeqsUpTo(StoreRows, MaxStoreRows)}
    /\ load_start \in {None, 2}
    /\ df_loaded = {}
    /\ df_filtered = {}
    /\ lpc = "opened"
    /\ SIdle
    /\ RIdle
    /\ PIdle

SpecLoad == InitLoad /\ [][NextLoad]_vars

\* ------------------------------------- lines 374-425 on one style feed
StyleRank ==
    /\ spc = "scored"
    /\ style_ranked' \in style_rankings(style_scores)
    /\ spc' = "ranked"
    /\ UNCHANGED <<style_scores, style_daily, df_styled>>
    /\ UNCHANGED <<zvars, cvars, ovars, avars, bvars, fvars, lvars, rvars, pvars>>

\* pd.date_range over the first and last day of an empty style_ranked
\* raises ValueError (both are NaT).
StyleDaily ==
    /\ spc = "ranked"
    /\ IF style_ranked = {}
         THEN /\ spc' = "error"
              /\ UNCHANGED style_daily
         ELSE /\ style_daily' = reindex_ffill(style_ranked)
              /\ spc' = "daily"
    /\ UNCHANGED <<style_scores, style_ranked, df_styled>>
    /\ UNCHANGED <<zvars, cvars, ovars, avars, bvars, fvars, lvars, rvars, pvars>>

\* df holds a row for every ticker on every day.
StyleMerge ==
    /\ spc = "daily"
    /\ df_styled' = merge_style([ticker : StyleTickers, teo : StyleDays], style_daily)
    /\ spc' = "merged"
    /\ UNCHANGED <<style_scores, style_ranked, style_daily>>
    /\ UNCHANGED <<zvars, cvars, ovars, avars, bvars, fvars, lvars, rvars, pvars>>

NextStyle ==
    \/ StyleRank
    \/ StyleDaily
    \/ StyleMerge

InitStyle ==
    /\ ZInit
    /\ CInit
    /\ OIdle
    /\ AIdle
    /\ BIdle
    /\ FIdle
    /\ LIdle
    /\ style_scores \in StyleFeeds
    /\ style_ranked = {}
    /\ style_daily = {}
    /\ df_styled = {}
    /\ spc = "scored"
    /\ RIdle
    /\ PIdle

SpecStyle == InitStyle /\ [][NextStyle]_vars

\* -------------------------------------- run_full_pipeline.py main()
\* Lines 300-340: the configuration is loaded, the status is checked and
\* --force sets every needs_ flag.  An exception (no config.yaml) is caught
\* at line 446 and returns 1.
PipeStatus ==
    /\ ppc = "start"
    /\ \E configOk \in BOOLEAN :
         IF ~configOk
           THEN /\ ppc' = "done"
                /\ pexit' = 1
                /\ UNCHANGED status
           ELSE /\ ppc' = "download"
                /\ status' =
                     LET st == check_pipeline_status(zarr_exists, zip_files, latest_zip_date)
                     IN  IF args.force
                         THEN [st EXCEPT !.needs_download = TRUE, !.needs_processing = TRUE,
                                         !.needs_iv_dataset = TRUE, !.needs_upload = TRUE]
                         ELSE st
                /\ UNCHANGED pexit
    /\ UNCHANGED <<args, zarr_exists, zip_files, latest_zip_date, steps_started,
                   steps_failed, overall_success, steps_run>>
    /\ UNCHANGED <<zvars, cvars, ovars, avars, bvars, fvars, lvars, svars, rvars>>

\* Lines 343-355, step 1.  A download that succeeds outside a dry run may
\* have added archives of a later date.
PipeDownload ==
    /\ ppc = "download"
    /\ IF ~status.needs_download
         THEN /\ ppc' = "recheck"
              /\ UNCHANGED <<zip_files, latest_zip_date, steps_started, steps_failed,
                             steps_run, pexit>>
         ELSE /\ steps_started' = Append(steps_started, "download")
              /\ \E scriptFound \in BOOLEAN, returncode \in {0, 1} :
                   IF ~run_script(scriptFound, args.dry_run, returncode)
                     THEN /\ steps_failed' = steps_failed \cup {"download"}
                          /\ IF stops_pipeline("download")
                               THEN ppc' = "done" /\ pexit' = 1
                               ELSE ppc' = "recheck" /\ UNCHANGED pexit
                          /\ UNCHANGED <<zip_files, latest_zip_date, steps_run>>
                     ELSE /\ steps_run' = steps_run + 1
                          /\ ppc' = "recheck"
                          /\ IF args.dry_run
                               THEN UNCHANGED <<zip_files, latest_zip_date>>
                               ELSE \E newer \in {latest_zip_date} \cup
                                                  {d \in Dates : d > latest_zip_date} :
                                      /\ latest_zip_date' = newer
                                      /\ zip_files' = (zip_files \/ newer # latest_zip_date)
                          /\ UNCHANGED <<steps_failed, pexit>>
    /\ UNCHANGED <<args, zarr_exists, status, overall_success>>
    /\ UNCHANGED <<zvars, cvars, ovars, avars, bvars, fvars, lvars, svars, rvars>>

\* Lines 357-367: the status is checked again after the download.
PipeRecheck ==
    /\ ppc = "recheck"
    /\ status' =
         IF ~args.dry_run /\ status.needs_download
         THEN LET new_status == check_pipeline_status(zarr_exists, zip_files, latest_zip_date)
              IN  IF new_status.latest_zip_date # status.latest_zip_date
                  THEN [status EXCEPT !.needs_processing = TRUE]
                  ELSE IF ~args.force
                  THEN [status EXCEPT !.needs_processing = FALSE]
                  ELSE status
         ELSE status
    /\ ppc' = "processing"
    /\ UNCHANGED <<args, zarr_exists, zip_files, latest_zip_date, steps_started,
                   steps_failed, overall_success, steps_run, pexit>>
    /\ UNCHANGED <<zvars, cvars, ovars, avars, bvars, fvars, lvars, svars, rvars>>

\* Lines 369-378, step 2.  A processing step that succeeds outside a dry
\* run may have created the store.
PipeProcess ==
    /\ ppc = "processing"
    /\ IF ~status.needs_processing
         THEN /\ ppc' = "ticker"
              /\ UNCHANGED <<zarr_exists, steps_started, steps_failed, steps_run, pexit>>
         ELSE /\ steps_started' = Append(steps_started, "processing")
              /\ \E scriptFound \in BOOLEAN, returncode \in {0, 1} :
                   IF ~run_script(scriptFound, args.dry_run, returncode)
                     THEN /\ steps_failed' = steps_failed \cup {"processing"}
                          /\ IF stops_pipeline("processing")
                               THEN ppc' = "done" /\ pexit' = 1
                               ELSE ppc' = "ticker" /\ UNCHANGED pexit
                          /\ UNCHANGED <<zarr_exists, steps_run>>
                     ELSE /\ steps_run' = steps_run + 1
                          /\ ppc' = "ticker"
                          /\ IF args.dry_run
                               THEN UNCHANGED zarr_exists
                               ELSE \E created \in BOOLEAN :
                                      zarr_exists' = (zarr_exists \/ created)
                          /\ UNCHANGED <<steps_failed, pexit>>
    /\ UNCHANGED <<args, zip_files, latest_zip_date, status, overall_success>>
    /\ UNCHANGED <<zvars, cvars, ovars, avars, bvars, fvars, lvars, svars, rvars>>

\* Lines 380-400, step 3: the daily ticker dataset is copied unless it is
\* recent and --force is not given.
PipeTicker ==
    /\ ppc = "ticker"
    /\ \E dataset_exists \in BOOLEAN, returncode \in {0, 1} :
         IF ~status.needs_iv_dataset \/ (dataset_exists /\ ~args.force)
           THEN UNCHANGED <<steps_started, steps_failed, overall_success, steps_run>>
           ELSE /\ steps_started' = Append(steps_started, "ticker")
                /\ IF ~run_gsutil_command(args.dry_run, returncode)
                     THEN /\ steps_failed' = steps_failed \cup {"ticker"}
                          /\ overall_success' = FALSE
                          /\ UNCHANGED steps_run
                     ELSE /\ steps_run' = steps_run + 1
                          /\ UNCHANGED <<steps_failed, overall_success>>
    /\ ppc' = "iv"
    /\ UNCHANGED <<args, zarr_exists, zip_files, latest_zip_date, status, pexit>>
    /\ UNCHANGED <<zvars, cvars, ovars, avars, bvars, fvars, lvars, svars, rvars>>

\* Lines 402-418, step 4.
PipeIv ==
    /\ ppc = "iv"
    /\ IF ~status.needs_iv_dataset
         THEN UNCHANGED <<steps_started, steps_failed, overall_success, steps_run>>
         ELSE /\ steps_started' = Append(steps_started, "iv")
              /\ \E scriptFound \in BOOLEAN, returncode \in {0, 1} :
                   IF ~run_script(scriptFound, args.dry_run, returncode)
                     THEN /\ steps_failed' = steps_failed \cup {"iv"}
                          /\ overall_success' = FALSE
                          /\ UNCHANGED steps_run
                     ELSE /\ steps_run' = steps_run + 1
                          /\ UNCHANGED <<steps_failed, overall_success>>
    /\ ppc' = "upload"
    /\ UNCHANGED <<args, zarr_exists, zip_files, latest_zip_date, status, pexit>>
    /\ UNCHANGED <<zvars, cvars, ovars, avars, bvars, fvars, lvars, svars, rvars>>

\* Lines 420-430, step 5.
PipeUpload ==
    /\ ppc = "upload"
    /\ IF ~status.needs_upload
         THEN UNCHANGED <<steps_started, steps_failed, overall_success, steps_run>>
         ELSE /\ steps_started' = Append(steps_started, "upload")
              /\ \E scriptFound \in BOOLEAN, returncode \in {0, 1} :
                   IF ~run_script(scriptFound, args.dry_run, returncode)
                     THEN /\ steps_failed' = steps_failed \cup {"upload"}
                          /\ overall_success' = FALSE
                          /\ UNCHANGED steps_run
                     ELSE /\ steps_run' = steps_run + 1
                          /\ UNCHANGED <<steps_failed, overall_success>>
    /\ ppc' = "summary"
    /\ UNCHANGED <<args, zarr_exists, zip_files, latest_zip_date, status, pexit>>
    /\ UNCHANGED <<zvars, cvars, ovars, avars, bvars, fvars, lvars, svars, rvars>>

\* Lines 432-444: return 0 if overall_success else 1.
PipeSummary ==
    /\ ppc = "summary"
    /\ pexit' = IF overall_success THEN 0 ELSE 1
    /\ ppc' = "done"
    /\ UNCHANGED <<args, zarr_exists, zip_files, latest_zip_date, status, steps_started,
                   steps_failed, overall_success, steps_run>>
    /\ UNCHANGED <<zvars, cvars, ovars, avars, bvars, fvars, lvars, svars, rvars>>

NextPipeline ==
    \/ PipeStatus
    \/ PipeDownload
    \/ PipeRecheck
    \/ PipeProcess
    \/ PipeTicker
    \/ PipeIv
    \/ PipeUpload
    \/ PipeSummary

\* One invocation: any flags, the store present or not, the ZIP directory
\* empty, holding undated archives, or holding archives up to some date.
InitPipeline ==
    /\ ZInit
    /\ CInit
    /\ OIdle
    /\ AIdle
    /\ BIdle
    /\ FIdle
    /\ LIdle
    /\ SIdle
    /\ RIdle
    /\ args \in [dry_run : BOOLEAN, force : BOOLEAN]
    /\ zarr_exists \in BOOLEAN
    /\ latest_zip_date \in {None} \cup Dates
    /\ zip_files \in IF latest_zip_date = None THEN BOOLEAN ELSE {TRUE}
    /\ status = check_pipeline_status(FALSE, FALSE, None)
    /\ steps_started = << >>
    /\ steps_failed = {}
    /\ overall_success = TRUE
    /\ steps_run = 0
    /\ pexit = 0
    /\ ppc = "start"

SpecPipeline == InitPipeline /\ [][NextPipeline]_vars

\* ------------------------------------------------------------ properties
StoreDates(store) == {store.rows[i].rec.teo : i \in 1..Len(store.rows)}

Records(rows) == [i \in 1..Len(rows) |-> rows[i].rec]

\* C1: whatever merges have run (creation, appends, forced re-processing,
\* a batch merged again), no two rows of the persisted CubeStore have the
\* same natural key.
C1_NaturalKeyUnique ==
    \A i, j \in 1..Len(cubeStore.rows) :
        NaturalKey(cubeStore.rows[i]) = NaturalKey(cubeStore.rows[j]) => i = j

\* An append has completed in which rows of the batch repeated stored keys.
C1_Witness ==
    /\ ioutcome = "appended"
    /\ cubeStore = cubeNext
    /\ cubePrior.rows # << >>
    /\ Len(cubeStore.rows) < Len(cubePrior.rows) + Len(agg_all)

\* C2: at every moment, also after an interruption, each persisted store
\* is either what it was before the merge or the complete combined result.
C2_AtomicReplace ==
    /\ surfaceStore \in {surfacePrior, surfaceNext}
    /\ cubeStore \in {cubePrior, cubeNext}

\* C3: when the append to an existing CubeStore has failed and the fallback
\* has run, the CubeStore is what it was before the attempt and the side
\* location holds the new batch.
C3_FailedAppendKeepsStore ==
    ioutcome = "fallback" =>
        /\ cubeStore = cubePrior
        /\ cubeTemp = [exists |-> TRUE, rows |-> new_output_rows(agg_all)]

\* C4: a run that took the side-location fallback ends with a status the
\* orchestrator does not count as success.
C4_FallbackIsError ==
    ioutcome = "fallback" => ~run_script_success(iexit)

\* C5: when the SurfaceStore exists and cannot be read, the merger stops
\* with an error instead of going on to parse and write archives.
C5_UnreadableStoreBlocks ==
    zopenFailed => zpc \notin {"parse", "to_zarr", "writing"}

\* C6: no archive whose file-name date is already represented in the
\* SurfaceStore is among the archives a run parses.
C6_OnlyNewDatesIngested ==
    (zpc = "parse" /\ ~zopenFailed) =>
        \A i \in 1..Len(new_zip_files) :
            extract_date_from_filename(new_zip_files[i]) \notin StoreDates(surfaceStore)

\* C7: a run of the merger in which every dated archive's date was already
\* in the SurfaceStore leaves the stored records as they were.
C7_ReRunIsNoOp ==
    [][(/\ zpc = "writing" /\ zpc' = "idle" /\ zexit' = 0
        /\ ~zopenFailed
        /\ surfacePrior.exists
        /\ \A f \in zipDir : extract_date_from_filename(f) # NoDate =>
               extract_date_from_filename(f) \in StoreDates(surfacePrior))
       => Records(surfaceStore'.rows) = Records(surfacePrior.rows)]_vars

\* C8: for two batches with disjoint dates, merging the first then the
\* second leaves the same set of records as merging the second then the
\* first, whether the store existed beforehand or not.
C8_OrderIndependent ==
    (oab = 2 /\ oba = 2) => RecordSet(oAB.rows) = RecordSet(oBA.rows)

\* Both orders have been merged, both batches had data, and the two stores
\* differ as stored.
C8_Witness ==
    /\ oab = 2 /\ oba = 2
    /\ oB1 # << >> /\ oB2 # << >>
    /\ oAB # oBA

\* C9: the SurfaceStore never holds two rows with the same record.
C9_NoDuplicateRecords ==
    \A i, j \in 1..Len(surfaceStore.rows) :
        surfaceStore.rows[i].rec = surfaceStore.rows[j].rec => i = j

\* C10: a merge into an existing SurfaceStore removes no stored record: the
\* records held before it are all held after it.
C10_AppendOnly ==
    [][/\ oAB.exists => RecordSet(oAB.rows) \subseteq RecordSet(oAB'.rows)
       /\ oBA.exists => RecordSet(oBA.rows) \subseteq RecordSet(oBA'.rows)]_vars

\* A store that was created and then appended to: it holds rows numbered at
\* creation and rows added by an append.
C10_Witness ==
    /\ oab = 2
    /\ \E i \in 1..Len(oAB.rows) : oAB.rows[i].index # NaN
    /\ \E i \in 1..Len(oAB.rows) : oAB.rows[i].index = NaN

\* A snapshot that takes part in a run as new and valid: its name carries a
\* date the store does not hold and it parses to at least one record.
ValidNewSnapshots(dir, store) ==
    {f \in dir : /\ extract_date_from_filename(f) \in Dates
                 /\ extract_date_from_filename(f) \notin StoreDates(store)
                 /\ process_zip_file(f) # << >>}

\* A snapshot that cannot be parsed or whose name gives no date.
BadSnapshot(f) ==
    \/ extract_date_from_filename(f) \notin Dates
    \/ process_zip_file(f) = << >>

\* C11: a run whose directory holds a snapshot that cannot be parsed or
\* whose name gives no date, next to valid new snapshots, goes on to parse,
\* and the rows it hands to the write hold every record of every valid new
\* snapshot.
C11_BadSnapshotSkipped ==
    [][/\ (/\ zpc = "idle" /\ zruns' = zruns + 1
           /\ \E g \in zipDir : BadSnapshot(g)
           /\ ValidNewSnapshots(zipDir, surfaceStore) # {})
          => zpc' = "parse"
       /\ (/\ zpc = "parse" /\ zpc' = "to_zarr"
           /\ \E g \in zipDir : BadSnapshot(g))
          => \A f \in ValidNewSnapshots(zipDir, surfaceStore) :
                 Range(process_zip_file(f)) \subseteq RecordSet(combined_df')]_vars

\* C12: a run with no valid new snapshot (none in the directory, or none
\* that parses to a record) ends, unless it is killed, with exit status 0
\* and never touches the SurfaceStore, present or absent.
C12_EmptyBatchNoOp ==
    [][(/\ ValidNewSnapshots(zipDir, surfaceStore) = {}
        /\ zpc \in {"idle", "parse"}
        /\ zruns' # zruns \/ zpc' # zpc
        /\ ~(zpc = "parse" /\ zpc' = "idle" /\ zexit' = 2))
       => /\ zpc' \in {"idle", "parse"}
          /\ zpc' = "idle" => zexit' = 0
          /\ surfaceStore' = surfaceStore]_vars

\* The enriched rows in the sense of the data model: rows that have a sector
\* and a market cap.
EnrichedRows(df) == {r \in df : r.gics_sector # NameNaN /\ r.market_cap # NaN}

CubeDims == {"gics_sector", "size_category", "style"}

\* C13: for every enriched row and every subset of {sector, size, style}
\* kept at detail, the batch has a row for the row's (teo, expiry_label,
\* value_type) with the row's own values in the kept dimensions and 'Total'
\* in the others.
C13_AllSubsetsPresent ==
    apc = "done" =>
        \A r \in EnrichedRows(df_enriched) : \A keep \in SUBSET CubeDims :
            \E i \in 1..Len(agg_batch) :
                /\ agg_batch[i].teo = r.teo
                /\ agg_batch[i].expiry_label = r.expiry_label
                /\ agg_batch[i].value_type = r.value_type
                /\ \A d \in CubeDims :
                       agg_batch[i][d] = IF d \in keep THEN r[d] ELSE Total

RECURSIVE RefNumerator(_)
RefNumerator(S) ==
    IF S = {} THEN 0
    ELSE LET x == CHOOSE y \in S : TRUE
         IN  x.value * x.market_cap + RefNumerator(S \ {x})

RECURSIVE RefDenominator(_)
RefDenominator(S) ==
    IF S = {} THEN 0
    ELSE LET x == CHOOSE y \in S : TRUE IN x.market_cap + RefDenominator(S \ {x})

\* The enriched rows a cube row stands for: same slice, same value in every
\* dimension the row does not roll up.
RowMembers(row, df) ==
    {r \in EnrichedRows(df) :
        /\ r.teo = row.teo
        /\ r.expiry_label = row.expiry_label
        /\ r.value_type = row.value_type
        /\ \A d \in CubeDims : row[d] = Total \/ row[d] = r[d]}

\* C14: the weighted_value of every row of the batch is the sum of
\* value * market_cap divided by the sum of market_cap over exactly the
\* enriched rows of its slice that agree with it in the kept dimensions.
C14_WeightedMean ==
    apc = "done" =>
        \A i \in 1..Len(agg_batch) :
            agg_batch[i].weighted_value =
                Ratio(RefNumerator(RowMembers(agg_batch[i], df_enriched)),
                      RefDenominator(RowMembers(agg_batch[i], df_enriched)))

\* A batch with a row that is a true weighted mean: two constituents of
\* different value and different market cap, the result no whole number.
C14_Witness ==
    /\ apc = "done"
    /\ \E i \in 1..Len(agg_batch) :
         /\ agg_batch[i].weighted_value[2] > 1
         /\ \E r1, r2 \in RowMembers(agg_batch[i], df_enriched) :
                r1.value # r2.value /\ r1.market_cap # r2.market_cap

\* weighted_value * market cap in floating point: NaN when the value is.
RECURSIVE SectorNumerators(_, _)
SectorNumerators(rows, df) ==
    IF rows = {} THEN 0
    ELSE LET x == CHOOSE y \in rows : TRUE
             rest == SectorNumerators(rows \ {x}, df)
             cap == RefDenominator(RowMembers(x, df))
         IN  IF x.weighted_value[2] = 0 \/ rest = NaN THEN NaN
             ELSE x.weighted_value[1] * (cap \div x.weighted_value[2]) + rest

\* C15: in every slice the grand-total row is the weighted mean over every
\* enriched row of the slice, and the per-sector rows (size and style
\* rolled up), each weighted with its sector's market cap, add up to it.
C15_GrandTotalReconciles ==
    apc = "done" =>
        \A i \in 1..Len(agg_batch) :
            (\A d \in CubeDims : agg_batch[i][d] = Total) =>
                LET slice == {r \in EnrichedRows(df_enriched) :
                                 /\ r.teo = agg_batch[i].teo
                                 /\ r.expiry_label = agg_batch[i].expiry_label
                                 /\ r.value_type = agg_batch[i].value_type}
                    sectors == {agg_batch[j] : j \in
                                 {k \in 1..Len(agg_batch) :
                                     /\ agg_batch[k].teo = agg_batch[i].teo
                                     /\ agg_batch[k].expiry_label = agg_batch[i].expiry_label
                                     /\ agg_batch[k].value_type = agg_batch[i].value_type
                                     /\ agg_batch[k].gics_sector # Total
                                     /\ agg_batch[k].size_category = Total
                                     /\ agg_batch[k].style = Total}}
                    num == SectorNumerators(sectors, df_enriched)
                    reconciled == IF num = NaN THEN <<0, 0>>
                                  ELSE Ratio(num, RefDenominator(slice))
                IN  /\ agg_batch[i].weighted_value =
                           Ratio(RefNumerator(slice), RefDenominator(slice))
                    /\ agg_batch[i].weighted_value = reconciled

\* C16: the batch holds no row whose market-cap denominator is zero or
\* absent: no row with an undefined weighted_value.
C16_NoUndefinedRow ==
    apc = "done" =>
        \A i \in 1..Len(agg_batch) : agg_batch[i].weighted_value # <<0, 0>>

\* C17: a joined row without a sector (no industry code, a code the lookup
\* does not know, a code mapped to no sector) or without a market cap is
\* not among the rows that are grouped, and every row of the batch stands
\* for at least one row that has both.
C17_UnmappedExcluded ==
    /\ apc \in {"enriched", "done"} =>
          \A r \in df_joined :
              (\/ r.fs_industry_code = NaN
               \/ fs_industry_to_gic_code(r.fs_industry_code) = NaN
               \/ gic_code_to_gic_name(fs_industry_to_gic_code(r.fs_industry_code)) = NameNaN
               \/ r.mktcap = NaN)
              => ~\E e \in df_enriched : e.teo = r.teo /\ e.ticker = r.ticker
    /\ apc = "done" =>
          \A i \in 1..Len(agg_batch) : RowMembers(agg_batch[i], df_enriched) # {}

\* C18: the bucket of every row is a target of least distance to
\* years * 365, and among targets of equal distance the one that comes
\* first in TARGET_DAYS.
C18_ClosestBucketFirstOnTies ==
    bpc # "loaded" =>
        \A r \in df_bucketed :
            \E k \in 1..Len(TARGET_DAYS) :
                /\ r.target_days = TARGET_DAYS[k]
                /\ \A j \in 1..Len(TARGET_DAYS) :
                       /\ Abs(Days(r.years) - TARGET_DAYS[k])
                              <= Abs(Days(r.years) - TARGET_DAYS[j])
                       /\ Abs(Days(r.years) - TARGET_DAYS[k])
                              = Abs(Days(r.years) - TARGET_DAYS[j])
                          => k <= j

\* A row half-way between two targets has been given its bucket.
C18_Witness ==
    /\ bpc # "loaded"
    /\ \E r \in df_bucketed : r.years = 45 /\ r.target_days = 30

\* C19: after the reduction every (teo, ticker, bucket) of the candidates
\* has exactly one row; that row is, column by column, one of the group's
\* candidates, and no candidate of the group is closer to the target.
C19_OneClosestRecord ==
    bpc \in {"reduced", "again"} =>
        \A c \in df_bucketed :
            /\ Cardinality({r \in df_reduced : BucketKey(r) = BucketKey(c)}) = 1
            /\ \A r \in df_reduced :
                   BucketKey(r) = BucketKey(c) =>
                       /\ \E d \in df_bucketed : DropDiff(d) = r
                       /\ Abs(Days(r.years) - r.target_days) <= c.days_diff

\* A group of several candidates at different distances has been reduced.
C19_Witness ==
    /\ bpc = "reduced"
    /\ \E c1, c2 \in df_bucketed :
         /\ BucketKey(c1) = BucketKey(c2)
         /\ c1.days_diff < c2.days_diff
    /\ Cardinality(df_reduced) < Cardinality(df_bucketed)

\* C20: bucketing and reducing the reduced rows again gives the same rows
\* with the same buckets.
C20_BucketingIdempotent ==
    bpc = "again" => df_again = df_reduced

\* The second pass has run on the result of a first pass that removed rows.
C20_Witness ==
    /\ bpc = "again"
    /\ df_reduced # {}
    /\ Cardinality(df_reduced) < Cardinality(df_all)

\* A pair of adjacent targets, a value type and a (teo, ticker) of the
\* reduced frame, with the values the ticker has at the two targets (NaN
\* when it has no row there).
EndpointValue(df, teo, ticker, t, col) ==
    IF \E r \in df : r.teo = teo /\ r.ticker = ticker /\ r.target_days = t
    THEN (CHOOSE r \in df : r.teo = teo /\ r.ticker = ticker /\ r.target_days = t)[col]
    ELSE NaN

\* C21: the forward computation ends without error whatever buckets the
\* batch fills, and a row labelled fwd_T1_T2 exists for a (teo, ticker) and
\* value type only if the ticker has a value at T1 and at T2.
C21_ForwardNeedsBothEndpoints ==
    /\ fpc # "error"
    /\ fpc = "done" =>
          \A r \in df_melt :
              Len(r.expiry_label) = 2 =>
                  /\ EndpointValue(df_fwd, r.teo, r.ticker, r.expiry_label[1], r.value_type) # NaN
                  /\ EndpointValue(df_fwd, r.teo, r.ticker, r.expiry_label[2], r.value_type) # NaN

\* C22: when some (teo, ticker, pair, value type) has a negative radicand,
\* the forward computation still ends without error and df_melt has no row
\* for that pair, ticker and value type.
C22_NegativeRadicandExcluded ==
    fpc \in {"done", "error"} =>
        \A x \in df_fwd : \A k \in 1..Len(TARGET_PAIRS) : \A col \in {"atmVol", "atmCen"} :
            LET v1 == EndpointValue(df_fwd, x.teo, x.ticker, TARGET_PAIRS[k][1], col)
                v2 == EndpointValue(df_fwd, x.teo, x.ticker, TARGET_PAIRS[k][2], col)
            IN  (/\ v1 # NaN /\ v2 # NaN
                 /\ v2 * v2 * TARGET_PAIRS[k][2] - v1 * v1 * TARGET_PAIRS[k][1] < 0)
                => /\ fpc = "done"
                   /\ ~\E r \in df_melt :
                          /\ r.teo = x.teo /\ r.ticker = x.ticker
                          /\ r.expiry_label = TARGET_PAIRS[k]
                          /\ r.value_type = col

\* The records the liquidity and maturity rule excludes: years above 2 or
\* below 0.01, atmVol not below 1.5, fewer than 20 contracts, vwidth above
\* 0.2.
FailsLiquidityRule(r) ==
    \/ r.years > 2 * 365
    \/ r.years * 100 < 365
    \/ ~(r.atmVol * 2 < 3 * AtmVolDen)
    \/ r.cCnt + r.pCnt < 20
    \/ (r.vwidth # NaN /\ r.vwidth * 10 > 2 * VwidthDen)

\* C23: the frame load_and_filter_data hands to the aggregation holds no
\* record that fails the liquidity and maturity rule, and it is the frame
\* the same store gives without its failing records.
C23_OnlyFilteredRecordsContribute ==
    lpc = "filtered" =>
        /\ \A r \in df_filtered : ~FailsLiquidityRule(r)
        /\ df_filtered =
               load_and_filter_data({r \in ds_opened : ~FailsLiquidityRule(r)}, load_start)

C23_Witness ==
    /\ lpc = "filtered"
    /\ df_filtered # {}
    /\ \E r \in ds_opened : FailsLiquidityRule(r) /\ r.vwidth # NaN /\ r.teo = 2

\* The days on which ticker t has a score.
ObservedDays(t) ==
    {d \in StyleDays : \E k \in 1..Len(StyleColumns) :
        style_scores[<<t, d>>][StyleColumns[k]] # NaN}

\* The style assigned to ticker t on day d.
AssignedStyle(t, d) == (CHOOSE r \in df_styled : r.ticker = t /\ r.teo = d).style

\* On a day with scores the assigned style has a largest score.
MaxScoreSelected(t, d) ==
    d \in ObservedDays(t) =>
        /\ AssignedStyle(t, d) # StyleNaN
        /\ style_scores[<<t, d>>][AssignedStyle(t, d)] # NaN
        /\ \A k \in 1..Len(StyleColumns) :
              style_scores[<<t, d>>][StyleColumns[k]]
                  <= style_scores[<<t, d>>][AssignedStyle(t, d)]

\* On a day without scores after an observed day the assigned style is the
\* one of the ticker's latest earlier observed day.
FilledForward(t, d) ==
    (d \notin ObservedDays(t) /\ \E e \in ObservedDays(t) : e < d) =>
        AssignedStyle(t, d) =
            AssignedStyle(t, CHOOSE e \in ObservedDays(t) :
                                /\ e < d
                                /\ \A g \in ObservedDays(t) : g < d => g <= e)

\* On a day without scores before the ticker's first observed day no style
\* is assigned.
NeverFilledBackwards(t, d) ==
    (d \notin ObservedDays(t) /\ ~\E e \in ObservedDays(t) : e < d) =>
        AssignedStyle(t, d) = StyleNaN

\* The last day on which any ticker has a score.
LastScoredDay == CHOOSE d \in StyleDays :
    /\ \E t \in StyleTickers : d \in ObservedDays(t)
    /\ \A t \in StyleTickers : \A e \in ObservedDays(t) : e <= d

\* C24 as stated: on every day with scores the assigned style has a largest
\* score, on every day without scores after the ticker's first observed day
\* it is the style of the ticker's latest earlier observed day, and before
\* the first observed day there is none.
C24_StyleMaxAndForwardFilled ==
    spc = "merged" =>
        \A t \in StyleTickers : \A d \in StyleDays :
            /\ MaxScoreSelected(t, d)
            /\ FilledForward(t, d)
            /\ NeverFilledBackwards(t, d)

\* C24 as amended: the same, with the forward fill claimed only for days
\* not after the last day on which any ticker has a score.
C24_StyleMaxAndFilledToLastScoredDay ==
    spc = "merged" =>
        \A t \in StyleTickers : \A d \in StyleDays :
            /\ MaxScoreSelected(t, d)
            /\ d <= LastScoredDay => FilledForward(t, d)
            /\ NeverFilledBackwards(t, d)

\* A ticker is filled forward over a gap while the other ticker, first
\* scored later, has a different style and no style before.
C24_Witness ==
    /\ spc = "merged"
    /\ \E t, u \in StyleTickers : \E d \in StyleDays :
          /\ d \notin ObservedDays(t)
          /\ d <= LastScoredDay
          /\ \E e \in ObservedDays(t) : e < d
          /\ AssignedStyle(t, d) # StyleNaN
          /\ ObservedDays(u) # {}
          /\ AssignedStyle(u, 1) = StyleNaN
          /\ AssignedStyle(u, d) # AssignedStyle(t, d)

\* The dates a CubeStore has a row for.
CubeDates(store) == {store.rows[i].teo : i \in 1..Len(store.rows)}

\* The rows of a CubeStore for dates up to L, in stored order.
RowsUpTo(store, L) == KeepAt(store.rows, {i \in 1..Len(store.rows) : store.rows[i].teo <= L})

\* The largest date of a non-empty set of dates.
MaxDateOf(S) == CHOOSE d \in S : \A e \in S : e <= d

\* A step in which main() of the aggregation script starts.
IvRunStarts == ipc = "idle" /\ iruns' # iruns

\* C25: in a run without --force that found the latest date L of the
\* CubeStore and the latest date of the SurfaceStore: when the latter is not
\* later than L the run ends at once and leaves the CubeStore as it was;
\* otherwise every row of the aggregated batch is for a date from L + 1 on,
\* every row the CubeStore holds for a date up to L while the run goes on
\* is a row it held before, and when the append has completed these rows
\* are exactly the ones held before.
C25_IncrementalLeavesOldDates ==
    [][/\ (IvRunStarts /\ ~iforce' /\ idetermined') =>
            IF MaxDateOf(StoreDates(surfaceStore)) <= MaxDateOf(CubeDates(cubeStore))
              THEN /\ cubeStore' = cubeStore
                   /\ ipc' = "idle"
                   /\ ioutcome' = "uptodate"
              ELSE ipc' # "idle" =>
                       \A k \in 1..Len(agg_all') :
                           agg_all'[k].teo >= MaxDateOf(CubeDates(cubeStore)) + 1
       /\ (ipc # "idle" /\ ~iforce /\ idetermined) =>
            /\ \A i \in 1..Len(cubeStore'.rows) :
                  cubeStore'.rows[i].teo <= MaxDateOf(CubeDates(cubePrior)) =>
                      \E j \in 1..Len(cubePrior.rows) : cubePrior.rows[j] = cubeStore'.rows[i]
            /\ ioutcome' = "appended" =>
                  RowsUpTo(cubeStore', MaxDateOf(CubeDates(cubePrior))) = cubePrior.rows]_vars

\* An incremental run has appended rows of a later date to a CubeStore
\* that held rows up to L.
C25_Witness ==
    /\ ioutcome = "appended"
    /\ ~iforce
    /\ idetermined
    /\ cubeStore = cubeNext
    /\ cubePrior.rows # << >>
    /\ \E i \in 1..Len(cubeStore.rows) :
          cubeStore.rows[i].teo > MaxDateOf(CubeDates(cubePrior))

\* C29: when an append has completed, every natural key the CubeStore held
\* before it is still stored with the weighted_value it had, whatever the
\* batch carried for that key and whether or not --force was given.
C29_FirstWriteWins ==
    ioutcome = "appended" =>
        \A i \in 1..Len(cubePrior.rows) :
            \E j \in 1..Len(cubeStore.rows) :
                /\ NaturalKey(cubeStore.rows[j]) = NaturalKey(cubePrior.rows[i])
                /\ cubeStore.rows[j].weighted_value = cubePrior.rows[i].weighted_value
                /\ \A k \in 1..Len(cubeStore.rows) :
                      NaturalKey(cubeStore.rows[k]) = NaturalKey(cubePrior.rows[i]) => k = j

\* A --force run has appended a batch that carried another weighted_value
\* for a stored natural key.
C29_Witness ==
    /\ ioutcome = "appended"
    /\ iforce
    /\ \E i \in 1..Len(cubePrior.rows) : \E k \in 1..Len(agg_all) :
          /\ NaturalKey(agg_all[k]) = NaturalKey(cubePrior.rows[i])
          /\ agg_all[k].weighted_value # cubePrior.rows[i].weighted_value

\* A step in which a run without --force ends with return code 0 after
\* finding nothing to do, creating the CubeStore or appending to it.
IvRunSucceeds ==
    /\ ~iforce'
    /\ \/ IvRunStarts /\ ipc' = "idle" /\ ioutcome' \in {"uptodate", "nodata"}
       \/ ipc = "writing" /\ ioutcome' \in {"appended", "created"}

\* The dates a run that aggregated has loaded: all of them, or the ones
\* after the latest date the CubeStore held when the run found that date.
LoadedByRun(d) ==
    /\ ioutcome' \in {"appended", "created"}
    /\ idetermined' => d > MaxDateOf(CubeDates(cubePrior'))

\* C30: when a run without --force has succeeded, every date of the
\* SurfaceStore has a row in the CubeStore, unless the run loaded the date
\* and no record of it survived filtering and enrichment.
C30_EverySurfaceDateInCube ==
    [][IvRunSucceeds =>
          \A d \in StoreDates(surfaceStore') :
              \/ d \in CubeDates(cubeStore')
              \/ LoadedByRun(d) /\ \A k \in 1..Len(agg_all') : agg_all'[k].teo # d]_vars

\* The place of a step in the order download, processing, ticker, iv,
\* upload.
StepIndex(step) == CHOOSE k \in 1..Len(PipelineSteps) : PipelineSteps[k] = step

\* C26: the steps an invocation has started are in the order download,
\* processing, daily ticker download, IV production, upload, each at most
\* once; and when the download or the processing step has failed, that
\* step is the last one started and the invocation has returned 1.
C26_FixedOrderAndEarlyStop ==
    /\ \A i, j \in 1..Len(steps_started) :
          i < j => StepIndex(steps_started[i]) < StepIndex(steps_started[j])
    /\ \A step \in steps_failed \cap {"download", "processing"} :
          /\ ppc = "done"
          /\ pexit = 1
          /\ steps_started[Len(steps_started)] = step

\* The processing step has failed after a download that succeeded.
C26_Witness ==
    /\ ppc = "done"
    /\ steps_failed = {"processing"}
    /\ steps_started = <<"download", "processing">>
    /\ pexit = 1

\* C27: an invocation outside a dry run that found no surface Zarr store
\* and whose download step succeeded starts the processing step, whether
\* or not the download changed the latest archive date.
C27_NoStoreMeansProcessing ==
    (/\ ppc \in {"ticker", "iv", "upload", "summary"}
     /\ ~args.dry_run
     /\ ~status.zarr_exists)
    => \E i \in 1..Len(steps_started) : steps_started[i] = "processing"

\* The sums behind a row of the batch, as its groupby(...).sum() forms
\* them: <<weighted_value_num, market_cap>> over the rows of df that have
\* the row's value in every dimension the row keeps at detail.
GroupSums(row, df) ==
    LET members == {r \in df :
                       /\ r.teo = row.teo
                       /\ r.expiry_label = row.expiry_label
                       /\ r.value_type = row.value_type
                       /\ \A d \in CubeDims : row[d] # Total => r[d] = row[d]}
    IN  <<SumNum(members), SumCap(members)>>

\* The rows of the batch that split a row along dimension d: the same slice
\* and the same values in the other dimensions, d at detail.
DetailRows(row, d) ==
    {agg_batch[j] : j \in
        {k \in 1..Len(agg_batch) :
            /\ agg_batch[k].teo = row.teo
            /\ agg_batch[k].expiry_label = row.expiry_label
            /\ agg_batch[k].value_type = row.value_type
            /\ agg_batch[k][d] # Total
            /\ \A e \in CubeDims \ {d} : agg_batch[k][e] = row[e]}}

RECURSIVE SumGroupSums(_, _)
SumGroupSums(rows, df) ==
    IF rows = {} THEN <<0, 0>>
    ELSE LET x == CHOOSE y \in rows : TRUE
             rest == SumGroupSums(rows \ {x}, df)
         IN  <<GroupSums(x, df)[1] + rest[1], GroupSums(x, df)[2] + rest[2]>>

\* C28: for every row of the batch and every dimension in which it is
\* 'Total', the row's numerator and denominator are the sums of the
\* numerators and denominators of the batch rows that have the same other
\* values and that dimension at detail.
C28_TotalsAreSumsOfDetails ==
    apc = "done" =>
        \A i \in 1..Len(agg_batch) : \A d \in CubeDims :
            agg_batch[i][d] = Total =>
                GroupSums(agg_batch[i], df_enriched)
                    = SumGroupSums(DetailRows(agg_batch[i], d), df_enriched)

====
